---- MODULE Spec2Model ----
(***************************************************************************)
(* Model of the deep-learning model manager (DeepModelManager) and of the  *)
(* model-card registry it owns.                                            *)
(*                                                                         *)
(* Two threads of control are modelled: the UI thread, which calls         *)
(* Install / Uninstall / CancelInstall, and the network transport, which   *)
(* delivers progress, data-received and request-finished events of every   *)
(* response that is still running.  Install is not atomic with respect to  *)
(* the transport: the request is started (DownloadModel) before the        *)
(* response is stored in mResponseMap, so ui.pc records where the UI thread *)
(* stands inside Install.                                                  *)
(*                                                                         *)
(* The file system records which files exist, not what they hold.  It      *)
(* follows POSIX: removing a file that a writer still has open removes the *)
(* name, and a later write through the open handle does not bring the name *)
(* back.                                                                   *)
(***************************************************************************)
EXTENDS Integers, Sequences, FiniteSets, TLC

\* ------------------------------------------------------------------ bounds
\* number of downloads (responses) the model lets Install issue
MaxTransfers == 2

\* number of Insert calls made on the registry when it is checked on its own
MaxInserts == 4

\* number of members of a metadata document that are absent or of the wrong type
MaxDefects == 2

\* ------------------------------------------------------------------- cards
\* Card objects handed to the panels: two cards built from hub responses and
\* one card found by the scan of the models directory in a directory that is
\* not the one GetRepoDir computes for its author and name.
Cards == {"hubAX", "hubBY", "locAX"}

author(c) == CASE c = "hubAX" -> "a" [] c = "hubBY" -> "b" [] c = "locAX" -> "a"

name(c) == CASE c = "hubAX" -> "x" [] c = "hubBY" -> "y" [] c = "locAX" -> "x"

is_local(c) == c = "locAX"

\* ModelCard::effect_type of the cards
effect_type(c) ==
    CASE c = "hubAX" -> "source-separation"
      [] c = "hubBY" -> "labeler"
      [] c = "locAX" -> "source-separation"

EffectTypes == {"source-separation", "labeler"}

\* ModelCard::GetRepoID, of a card given by its fields: author + '/' + name
RepoIDOf(card) == card.author \o "/" \o card.name

\* DeepModelManager::GetRepoDir, of a card given by its fields: DLModelsDir()/author_name
\* (relative to DLModelsDir)
RepoDirOf(card) == card.author \o "_" \o card.name

\* ModelCard::GetRepoID
GetRepoID(c) == RepoIDOf([author |-> author(c), name |-> name(c)])

\* DeepModelManager::GetRepoDir
GetRepoDir(c) == RepoDirOf([author |-> author(c), name |-> name(c)])

\* the directory in which the local scan found locAX's model.pt and metadata.json
ScannedDir == "my_model"

\* NewCardFromHuggingFace sets local_path to GetRepoDir(card);
\* NewCardFromLocal sets it to the directory of the metadata file that was read
local_path(c) == IF is_local(c) THEN ScannedDir ELSE GetRepoDir(c)

RepoIDs == {GetRepoID(c) : c \in Cards}

Dirs == {GetRepoDir(c) : c \in Cards} \cup {local_path(c) : c \in Cards}

\* the HTTP status a response can report when one of its callbacks runs
HttpCodes == {200, 302, 404}

VARIABLES
    fs,            \* [Dirs -> [model, meta]]: whether model.pt and metadata.json exist in the directory
    mResponseMap,  \* [RepoIDs -> 0..MaxTransfers]: the response stored for a repo id, 0 when no entry
    responses,     \* sequence of the responses issued by DownloadModel, in order of issue
    ui,            \* the UI thread: [pc, card]; pc is "idle", or inside Install(card): "download", "register"
    mCards,        \* the registry: sequence of cards
    lastOp         \* the operation or event handled last, and what it did

vars == <<fs, mResponseMap, responses, ui, mCards, lastOp>>

Idle == [pc |-> "idle", card |-> "none"]

Op(op, c, t, result, code, body) ==
    [op |-> op, card |-> c, t |-> t, result |-> result, code |-> code, body |-> body]

\* --------------------------------------------------------------- queries
\* DeepModelManager::IsInstalled: both files exist under card->local_path()
IsInstalledIn(f, c) ==
    /\ f[local_path(c)].model
    /\ f[local_path(c)].meta

IsInstalled(c) == IsInstalledIn(fs, c)

\* DeepModelManager::IsInstalling: the repo id has an entry in mResponseMap
IsInstalling(c) == mResponseMap[GetRepoID(c)] # 0

\* ------------------------------------------------------------ file system
\* DeepModelManager::Uninstall: remove model.pt and metadata.json of GetRepoDir(card)
Removed(f, c) == [f EXCEPT ![GetRepoDir(c)] = [model |-> FALSE, meta |-> FALSE]]

\* ModelCard::SerializeToFile(GetRepoDir(card)/metadata.json)
MetadataSaved(f, c) == [f EXCEPT ![GetRepoDir(c)].meta = TRUE]

\* wxFile(path, wxFile::write) in DownloadModel: creates model.pt, or truncates it
ModelFileOpened(f, c) == [f EXCEPT ![GetRepoDir(c)].model = TRUE]

\* file->SeekEnd(); file->Write(...) through the open handle: no file appears or disappears
ChunkWritten(f, c) == f

\* ------------------------------------------------------------------- Init
Init ==
    /\ fs = [d \in Dirs |-> IF d = ScannedDir
                            THEN [model |-> TRUE, meta |-> TRUE]
                            ELSE [model |-> FALSE, meta |-> FALSE]]
    /\ mResponseMap = [r \in RepoIDs |-> 0]
    /\ responses = <<>>
    /\ ui = Idle
    /\ mCards = <<>>
    /\ lastOp = Op("Init", "none", 0, "none", 0, FALSE)

\* the manager as constructed, nothing installed by it and nothing fetched
ManagerAtRest ==
    /\ fs = [d \in Dirs |-> IF d = ScannedDir
                            THEN [model |-> TRUE, meta |-> TRUE]
                            ELSE [model |-> FALSE, meta |-> FALSE]]
    /\ mResponseMap = [r \in RepoIDs |-> 0]
    /\ responses = <<>>
    /\ ui = Idle
    /\ mCards = <<>>

\* ------------------------------------------------------- UI thread: Install
\* Install without its first statement (the IsInstalled check)
InstallBeginAlways(c) ==
    /\ ui = Idle
    /\ Len(responses) < MaxTransfers
    /\ fs' = MetadataSaved(fs, c)
    /\ ui' = [pc |-> "download", card |-> c]
    /\ lastOp' = Op("Install", c, 0, "metadata_saved", 0, FALSE)
    /\ UNCHANGED <<mResponseMap, responses, mCards>>

\* the catch clause of Install's try block: catch (const char *msg)
Caught(exception) == exception = "const char*"

\* Install, up to the metadata write: returns at once when the card is installed,
\* else saves the card's metadata.json.  SerializeToFile throws
\* InvalidModelCardDocument when wxFile::Write fails; the file it opened for writing
\* may then exist (empty) or not.  An exception the catch clause does not take leaves
\* Install, and the statements after the throw are not executed.
InstallBegin(c) ==
    /\ ui = Idle
    /\ IF IsInstalled(c)
       THEN /\ lastOp' = Op("Install", c, 0, "noop", 0, FALSE)
            /\ UNCHANGED <<fs, mResponseMap, responses, ui, mCards>>
       ELSE \/ /\ Len(responses) < MaxTransfers
               /\ fs' = MetadataSaved(fs, c)
               /\ ui' = [pc |-> "download", card |-> c]
               /\ lastOp' = Op("Install", c, 0, "metadata_saved", 0, FALSE)
               /\ UNCHANGED <<mResponseMap, responses, mCards>>
            \/ /\ fs' \in {fs, MetadataSaved(fs, c)}
               /\ lastOp' = Op("Install", c, 0,
                               IF Caught("InvalidModelCardDocument")
                               THEN "logged" ELSE "InvalidModelCardDocument",
                               0, FALSE)
               /\ UNCHANGED <<mResponseMap, responses, ui, mCards>>

\* the response DownloadModel returns: the request is running, its callbacks are set
NewResponse(c) == [card |-> c, finished |-> FALSE, abortRequested |-> FALSE]

\* Install, the call of DownloadModel: the GET is sent and model.pt is opened for writing
InstallDownload ==
    /\ ui.pc = "download"
    /\ responses' = Append(responses, NewResponse(ui.card))
    /\ fs' = ModelFileOpened(fs, ui.card)
    /\ ui' = [ui EXCEPT !.pc = "register"]
    /\ lastOp' = Op("Install", ui.card, Len(responses) + 1, "download_issued", 0, FALSE)
    /\ UNCHANGED <<mResponseMap, mCards>>

\* Install, the last statement: mResponseMap[card->GetRepoID()] = response
InstallRegister ==
    /\ ui.pc = "register"
    /\ mResponseMap' = [mResponseMap EXCEPT ![GetRepoID(ui.card)] = Len(responses)]
    /\ ui' = Idle
    /\ lastOp' = Op("Install", ui.card, Len(responses), "registered", 0, FALSE)
    /\ UNCHANGED <<fs, responses, mCards>>

\* ------------------------------------- UI thread: Uninstall, CancelInstall
\* Uninstall that also drops the card's entry of the in-flight map
UninstallAndForget(c) ==
    /\ ui = Idle
    /\ fs' = Removed(fs, c)
    /\ mResponseMap' = [mResponseMap EXCEPT ![GetRepoID(c)] = 0]
    /\ lastOp' = Op("Uninstall", c, 0, "removed", 0, FALSE)
    /\ UNCHANGED <<responses, ui, mCards>>

\* DeepModelManager::Uninstall: wxRemoveFile of both files and wxRmDir, none of which
\* throws when the file or the directory is absent
Uninstall(c) ==
    /\ ui = Idle
    /\ fs' = Removed(fs, c)
    /\ lastOp' = Op("Uninstall", c, 0, "removed", 0, FALSE)
    /\ UNCHANGED <<mResponseMap, responses, ui, mCards>>

\* mResponseMap.clear() in place of mResponseMap.erase(repoid)
ErasedAll(map, repoid) == [r \in DOMAIN map |-> 0]

\* mResponseMap.erase(repoid)
Erased(map, repoid) == [map EXCEPT ![repoid] = 0]

\* response->abort()
Aborted(rs, t) == [rs EXCEPT ![t].abortRequested = TRUE]

\* CancelInstall that removes the card's files when no install is going on
CancelInstallCleansUp(c) ==
    /\ ui = Idle
    /\ IF ~IsInstalling(c)
       THEN /\ fs' = Removed(fs, c)
            /\ lastOp' = Op("CancelInstall", c, 0, "assert", 0, FALSE)
            /\ UNCHANGED <<mResponseMap, responses, ui, mCards>>
       ELSE /\ responses' = Aborted(responses, mResponseMap[GetRepoID(c)])
            /\ mResponseMap' = Erased(mResponseMap, GetRepoID(c))
            /\ lastOp' = Op("CancelInstall", c, mResponseMap[GetRepoID(c)], "aborted", 0, FALSE)
            /\ UNCHANGED <<fs, ui, mCards>>

CancelInstall(c) ==
    /\ ui = Idle
    /\ IF ~IsInstalling(c)
       THEN /\ lastOp' = Op("CancelInstall", c, 0, "assert", 0, FALSE)
            /\ UNCHANGED <<fs, mResponseMap, responses, ui, mCards>>
       ELSE /\ responses' = Aborted(responses, mResponseMap[GetRepoID(c)])
            /\ mResponseMap' = Erased(mResponseMap, GetRepoID(c))
            /\ lastOp' = Op("CancelInstall", c, mResponseMap[GetRepoID(c)], "aborted", 0, FALSE)
            /\ UNCHANGED <<fs, ui, mCards>>

\* ------------------------------------- UI thread: ModelCardPanel::OnCancelInstall
\* the panel's cancel button, shown while the panel's own install of its card is
\* registered: manager.CancelInstall(mCard) ...
OnCancelInstallBegins(c) ==
    /\ ui = Idle
    /\ IsInstalling(c)
    /\ responses[mResponseMap[GetRepoID(c)]].card = c
    /\ responses' = Aborted(responses, mResponseMap[GetRepoID(c)])
    /\ mResponseMap' = Erased(mResponseMap, GetRepoID(c))
    /\ ui' = [pc |-> "uninstall", card |-> c]
    /\ lastOp' = Op("OnCancelInstall", c, mResponseMap[GetRepoID(c)], "aborted", 0, FALSE)
    /\ UNCHANGED <<fs, mCards>>

\* OnCancelInstall that leaves out manager.Uninstall(mCard)
OnCancelInstallKeepsFiles ==
    /\ ui.pc = "uninstall"
    /\ ui' = Idle
    /\ lastOp' = Op("OnCancelInstall", ui.card, 0, "uninstalled", 0, FALSE)
    /\ UNCHANGED <<fs, mResponseMap, responses, mCards>>

\* ... followed by manager.Uninstall(mCard); events of the transport may be handled
\* between the two calls
OnCancelInstallEnds ==
    /\ ui.pc = "uninstall"
    /\ fs' = Removed(fs, ui.card)
    /\ ui' = Idle
    /\ lastOp' = Op("OnCancelInstall", ui.card, 0, "uninstalled", 0, FALSE)
    /\ UNCHANGED <<mResponseMap, responses, mCards>>

\* ------------------------------------------------------ UI thread: GetModel
\* what DeepModel::Load(GetRepoDir(card)/model.pt) can do: it throws ModelException when
\* torch cannot load the file (always when the file is absent), else the model is loaded
LoadResults(f, c) ==
    IF f[GetRepoDir(c)].model THEN {"loaded", "ModelException"} ELSE {"ModelException"}

\* GetModel without its IsInstalled check
GetModelUnchecked(c) ==
    /\ ui = Idle
    /\ \E r \in LoadResults(fs, c) : lastOp' = Op("GetModel", c, 0, r, 0, FALSE)
    /\ UNCHANGED <<fs, mResponseMap, responses, ui, mCards>>

\* DeepModelManager::GetModel: throws ModelManagerException when the card is not
\* installed, else loads GetRepoDir(card)/model.pt into a new DeepModel
GetModel(c) ==
    /\ ui = Idle
    /\ IF ~IsInstalled(c)
       THEN lastOp' = Op("GetModel", c, 0, "ModelManagerException", 0, FALSE)
       ELSE \E r \in LoadResults(fs, c) : lastOp' = Op("GetModel", c, 0, r, 0, FALSE)
    /\ UNCHANGED <<fs, mResponseMap, responses, ui, mCards>>

\* ---------------------------------------------------- transport callbacks
\* The transport's contract: a response that has not finished delivers any number of
\* progress and data-received events, also after abort() was requested, and then its
\* request-finished event, once.
Running(t) == t \in 1..Len(responses) /\ ~responses[t].finished

\* progressHandler of Install: bail when the install was cancelled, else call onProgress
ProgressEvent(t) ==
    /\ Running(t)
    /\ lastOp' = Op("Progress", responses[t].card, t,
                    IF IsInstalling(responses[t].card) THEN "called" ELSE "suppressed",
                    0, FALSE)
    /\ UNCHANGED <<fs, mResponseMap, responses, ui, mCards>>

\* the status codes the data callback saves for
SaveCode(code) == code = 200 \/ code = 302

\* the data-received callback of DownloadModel; code is response->getHTTPCode()
DataEvent(t) ==
    LET c == responses[t].card IN
    /\ Running(t)
    /\ \E code \in HttpCodes :
          IF ~IsInstalling(c)
          THEN /\ fs' = Removed(fs, c)
               /\ lastOp' = Op("Data", c, t, "uninstalled", code, FALSE)
          ELSE IF SaveCode(code)
          THEN /\ fs' = ChunkWritten(fs, c)
               /\ lastOp' = Op("Data", c, t, "written", code, FALSE)
          ELSE /\ fs' = fs
               /\ lastOp' = Op("Data", c, t, "skipped", code, FALSE)
    /\ UNCHANGED <<mResponseMap, responses, ui, mCards>>

\* the condition under which installHandler uninstalls before calling the caller's handler
InstallFailed(code, bodyNonEmpty) == ~(code = 200) \/ ~(code = 302) \/ ~bodyNonEmpty

\* the request-finished callback of DownloadModel, which calls installHandler of Install
\* with response->getHTTPCode() and the data still unread
FinishedEvent(t) ==
    LET c == responses[t].card IN
    /\ Running(t)
    /\ responses' = [responses EXCEPT ![t].finished = TRUE]
    /\ \E code \in HttpCodes, bodyNonEmpty \in BOOLEAN :
          IF ~IsInstalling(c)
          THEN /\ fs' = Removed(fs, c)
               /\ mResponseMap' = mResponseMap
               /\ lastOp' = Op("Finished", c, t, "uninstalled", code, bodyNonEmpty)
          ELSE /\ fs' = IF InstallFailed(code, bodyNonEmpty) THEN Removed(fs, c) ELSE fs
               /\ mResponseMap' = Erased(mResponseMap, GetRepoID(c))
               /\ lastOp' = Op("Finished", c, t, "called", code, bodyNonEmpty)
    /\ UNCHANGED <<ui, mCards>>

\* --------------------------------------------------------------- registry
\* ModelCardCollection::Insert that appends whatever the registry holds
InsertAlways(cards, c) == Append(cards, c)

\* ModelCardCollection::Insert: append unless a card with an equal repo id is there
Insert(cards, c) ==
    IF \E i \in 1..Len(cards) : GetRepoID(cards[i]) = GetRepoID(c)
    THEN cards
    ELSE Append(cards, c)

\* the cards FetchCard builds: only these pass through onCardFetchedWrapper
HubCards == {c \in Cards : ~is_local(c)}

\* onCardFetchedWrapper of FetchModelCards, for a card that was built successfully
CardFetched(c) ==
    /\ mCards' = Insert(mCards, c)
    /\ lastOp' = Op("CardFetched", c, 0,
                    IF mCards' = mCards THEN "duplicate" ELSE "inserted", 0, FALSE)
    /\ UNCHANGED <<fs, mResponseMap, responses, ui>>

\* ------------------------------------------------------------------- Next
Next ==
    \/ \E c \in Cards : InstallBegin(c)
    \/ InstallDownload
    \/ InstallRegister
    \/ \E c \in Cards : Uninstall(c)
    \/ \E c \in Cards : CancelInstall(c)
    \/ \E c \in Cards : OnCancelInstallBegins(c)
    \/ OnCancelInstallEnds
    \/ \E c \in Cards : GetModel(c)
    \/ \E t \in 1..MaxTransfers : ProgressEvent(t)
    \/ \E t \in 1..MaxTransfers : DataEvent(t)
    \/ \E t \in 1..MaxTransfers : FinishedEvent(t)
    \/ \E c \in HubCards : CardFetched(c)

Spec == Init /\ [][Next]_vars

\* ============================================ model cards and their documents
\* A ModelCard by value is the record of its serialized fields.  A JSON document is
\* [isObject, members]: whether its root is an object, and the members of the root by
\* key.  A JSON value is [type, val]; a number is an integer here, which IsInt accepts
\* always and IsUint64 accepts when it is not negative.

Keys == {"name", "author", "long_description", "short_description", "sample_rate",
         "multichannel", "effect_type", "domain_tags", "tags", "labels", "model_size"}

ArrayKeys == {"domain_tags", "tags", "labels"}

JString(str) == [type |-> "string", val |-> str]

JNumber(n) == [type |-> "number", val |-> n]

JBool(b) == [type |-> "bool", val |-> b]

JArray(elems) == [type |-> "array", val |-> elems]

\* what a tryGet function hands back: the value read, or the exception it throws;
\* undefined marks a value read through an accessor whose precondition did not hold
Got(v) == [ok |-> TRUE, val |-> v, undefined |-> FALSE]

Thrown == [ok |-> FALSE, val |-> "InvalidModelCardDocument", undefined |-> FALSE]

\* validators::validateExists: TRUE when it returns, FALSE when it throws
validateExists(key, doc) == doc.isObject /\ key \in DOMAIN doc.members

tryGetString(key, doc) ==
    IF ~validateExists(key, doc) THEN Thrown
    ELSE IF doc.members[key].type # "string" THEN Thrown
    ELSE Got(doc.members[key].val)

tryGetStringDefault(key, doc, defaultValue) ==
    IF tryGetString(key, doc).ok THEN tryGetString(key, doc).val ELSE defaultValue

tryGetInt(key, doc) ==
    IF ~validateExists(key, doc) THEN Thrown
    ELSE IF doc.members[key].type # "number" THEN Thrown
    ELSE Got(doc.members[key].val)

tryGetBool(key, doc) ==
    IF ~validateExists(key, doc) THEN Thrown
    ELSE IF doc.members[key].type # "bool" THEN Thrown
    ELSE Got(doc.members[key].val)

tryGetUint64(key, doc) ==
    IF ~validateExists(key, doc) THEN Thrown
    ELSE IF ~(doc.members[key].type = "number" /\ doc.members[key].val >= 0) THEN Thrown
    ELSE Got(doc.members[key].val)

tryGetUint64Default(key, doc, defaultValue) ==
    IF tryGetUint64(key, doc).ok THEN tryGetUint64(key, doc).val ELSE defaultValue

\* what GetString() yields for an element that is not a string, when it yields anything
Garbage == "?"

\* validators::tryGetStringArray: the member must be an array; every element is read with
\* GetString(), whose precondition IsString() is not checked
tryGetStringArray(key, doc) ==
    IF ~validateExists(key, doc) THEN Thrown
    ELSE IF doc.members[key].type # "array" THEN Thrown
    ELSE LET elems == doc.members[key].val IN
         [ok |-> TRUE,
          val |-> [i \in 1..Len(elems) |->
                      IF elems[i].type = "string" THEN elems[i].val ELSE Garbage],
          undefined |-> \E i \in 1..Len(elems) : elems[i].type # "string"]

\* the reads of Deserialize that have no default, in the order of the code
RequiredReads(doc) ==
    << tryGetString("effect_type", doc),
       tryGetStringArray("domain_tags", doc),
       tryGetStringArray("tags", doc),
       tryGetStringArray("labels", doc),
       tryGetInt("sample_rate", doc),
       tryGetBool("multichannel", doc) >>

\* the positions of the reads that throw, and of those whose behaviour is undefined
ThrowsAt(doc) == {i \in 1..Len(RequiredReads(doc)) : ~RequiredReads(doc)[i].ok}

UndefinedAt(doc) == {i \in 1..Len(RequiredReads(doc)) : RequiredReads(doc)[i].undefined}

\* the fields Deserialize has assigned when it returns
Deserialized(doc) ==
    [author            |-> tryGetStringDefault("author", doc, ""),
     name              |-> tryGetStringDefault("name", doc, ""),
     model_size        |-> tryGetUint64Default("model_size", doc, 0),
     long_description  |-> tryGetStringDefault("long_description", doc,
                                               "no long description available"),
     short_description |-> tryGetStringDefault("short_description", doc,
                                               "no short description available"),
     effect_type       |-> tryGetString("effect_type", doc).val,
     domain_tags       |-> tryGetStringArray("domain_tags", doc).val,
     tags              |-> tryGetStringArray("tags", doc).val,
     labels            |-> tryGetStringArray("labels", doc).val,
     sample_rate       |-> tryGetInt("sample_rate", doc).val,
     multichannel      |-> tryGetBool("multichannel", doc).val]

\* ModelCard::Validate(doc, schema): throws when the schema does not accept the document;
\* accepts stands for doc->Accept(validator), which the schema passed in decides
Validate(doc, accepts) == IF accepts THEN Got(TRUE) ELSE Thrown

\* ModelCard::Deserialize(doc, schema): the ways it can end.  A failure of Validate is
\* caught and logged.  The first required read that throws ends it with the exception;
\* when a read with undefined behaviour comes before that, the process may also have
\* crashed there (the assertion of GetString(), or the read of a string that is none).
Deserialize(doc, accepts) ==
    LET completes == IF ThrowsAt(doc) = {} THEN "ok" ELSE "InvalidModelCardDocument"
        undefinedFirst ==
            \E u \in UndefinedAt(doc) : \A t \in ThrowsAt(doc) : u < t
    IN IF undefinedFirst THEN {"crash", completes} ELSE {completes}

\* ModelCard::Serialize with the tags written for the key labels
SerializeTagsAsLabels(card) ==
    [isObject |-> TRUE,
     members |-> [k \in Keys |->
        CASE k = "name"              -> JString(card.name)
          [] k = "author"            -> JString(card.author)
          [] k = "long_description"  -> JString(card.long_description)
          [] k = "short_description" -> JString(card.short_description)
          [] k = "sample_rate"       -> JNumber(card.sample_rate)
          [] k = "multichannel"      -> JBool(card.multichannel)
          [] k = "effect_type"       -> JString(card.effect_type)
          [] k = "domain_tags"       ->
                JArray([i \in 1..Len(card.domain_tags) |-> JString(card.domain_tags[i])])
          [] k = "tags"              ->
                JArray([i \in 1..Len(card.tags) |-> JString(card.tags[i])])
          [] k = "labels"            ->
                JArray([i \in 1..Len(card.tags) |-> JString(card.tags[i])])
          [] k = "model_size"        -> JNumber(card.model_size)]]

\* ModelCard::Serialize between StartObject and EndObject: the document written
Serialize(card) ==
    [isObject |-> TRUE,
     members |-> [k \in Keys |->
        CASE k = "name"              -> JString(card.name)
          [] k = "author"            -> JString(card.author)
          [] k = "long_description"  -> JString(card.long_description)
          [] k = "short_description" -> JString(card.short_description)
          [] k = "sample_rate"       -> JNumber(card.sample_rate)
          [] k = "multichannel"      -> JBool(card.multichannel)
          [] k = "effect_type"       -> JString(card.effect_type)
          [] k = "domain_tags"       ->
                JArray([i \in 1..Len(card.domain_tags) |-> JString(card.domain_tags[i])])
          [] k = "tags"              ->
                JArray([i \in 1..Len(card.tags) |-> JString(card.tags[i])])
          [] k = "labels"            ->
                JArray([i \in 1..Len(card.labels) |-> JString(card.labels[i])])
          [] k = "model_size"        -> JNumber(card.model_size)]]

\* ModelCard::operator==
Equals(a, b) == RepoIDOf(a) = RepoIDOf(b)

\* ------------------------------------------------------------------ inputs
\* the cards that are serialized
ModelCards ==
    [name              : {"", "x"},
     author            : {"", "a"},
     long_description  : {"", "long"},
     short_description : {"short"},
     sample_rate       : {-1, 44100},
     multichannel      : BOOLEAN,
     effect_type       : {"", "source-separation"},
     domain_tags       : {<<>>, <<"music">>},
     tags              : {<<>>, <<"t1", "t2">>, <<"t2", "t1">>},
     labels            : {<<>>, <<"l1", "l2">>},
     model_size        : {0, 7}]

BaseCard ==
    [name |-> "x", author |-> "a", long_description |-> "long",
     short_description |-> "short", sample_rate |-> 44100, multichannel |-> TRUE,
     effect_type |-> "source-separation", domain_tags |-> <<"music">>,
     tags |-> <<"t1", "t2">>, labels |-> <<"l1", "l2">>, model_size |-> 7]

\* stands for the card of an operation that has none
NoCard ==
    [name |-> "", author |-> "", long_description |-> "", short_description |-> "",
     sample_rate |-> 0, multichannel |-> FALSE, effect_type |-> "",
     domain_tags |-> <<>>, tags |-> <<>>, labels |-> <<>>, model_size |-> 0]

\* how a member of a document can differ from what Serialize writes
DefectKinds(k) ==
    IF k \in ArrayKeys THEN {"missing", "wrongtype", "badelems"}
                       ELSE {"missing", "wrongtype"}

\* a value of the wrong type for key k; for an array, also one with an element that is
\* not a string; for model_size a number that is not a uint64
WrongValue(k, kind) ==
    IF kind = "badelems" THEN JArray(<<JString("t1"), JNumber(1)>>)
    ELSE IF k = "model_size" THEN JNumber(-1)
    ELSE IF Serialize(BaseCard).members[k].type = "string" THEN JNumber(1)
    ELSE JString("1")

\* the document of BaseCard with the members of DOMAIN kinds made defective
Defective(kinds) ==
    [isObject |-> TRUE,
     members |-> [k \in {m \in Keys : m \notin DOMAIN kinds \/ kinds[m] # "missing"} |->
                     IF k \in DOMAIN kinds THEN WrongValue(k, kinds[k])
                     ELSE Serialize(BaseCard).members[k]]]

\* a document whose root is not an object
NotAnObject == [isObject |-> FALSE, members |-> <<>>]

\* the authors and names of the cards that are compared
IdentityCards ==
    {[BaseCard EXCEPT !.author = a, !.name = n, !.effect_type = t] :
        a \in {"a", "a_b", "a/b"}, n \in {"c", "b_c", "b/c"},
        t \in {"source-separation", "labeler"}}

\* =============================================== ModelCard on its own
\* One document, one card or one pair of cards is given; the operations of ModelCard
\* (and GetRepoDir of the manager) are applied to it.  lastOp holds what is given, then
\* the operation applied and its outcome; the manager's other variables stay as
\* constructed.

Given(what, doc, card, other) ==
    [op |-> what, doc |-> doc, card |-> card, other |-> other,
     from |-> "none", accepts |-> TRUE, result |-> "none", back |-> NoCard,
     equal |-> FALSE, dirs |-> <<>>]

ModelCardInit ==
    /\ ManagerAtRest
    /\ \/ \E S \in SUBSET Keys :
             /\ Cardinality(S) <= MaxDefects
             /\ \E kinds \in [S -> {"missing", "wrongtype", "badelems"}] :
                   /\ \A k \in S : kinds[k] \in DefectKinds(k)
                   /\ lastOp = Given("document", Defective(kinds), NoCard, NoCard)
       \/ lastOp = Given("document", NotAnObject, NoCard, NoCard)
       \/ \E c \in ModelCards : lastOp = Given("card", NotAnObject, c, NoCard)
       \/ \E a, b \in IdentityCards : lastOp = Given("pair", NotAnObject, a, b)

\* ModelCard::Serialize of the card given
SerializeCard ==
    /\ lastOp.op = "card"
    /\ lastOp' = [lastOp EXCEPT !.op = "Serialize", !.doc = Serialize(lastOp.card)]
    /\ UNCHANGED <<fs, mResponseMap, responses, ui, mCards>>

\* ModelCard::Deserialize of the document given, or of the one just serialized, with a
\* schema that accepts it or not
DeserializeDocument ==
    /\ lastOp.op \in {"document", "Serialize"}
    /\ \E accepts \in BOOLEAN :
          \E r \in Deserialize(lastOp.doc, accepts) :
             lastOp' = [lastOp EXCEPT !.op = "Deserialize",
                                      !.from = lastOp.op,
                                      !.accepts = accepts,
                                      !.result = r,
                                      !.back = IF r = "ok" THEN Deserialized(lastOp.doc)
                                                           ELSE NoCard]
    /\ UNCHANGED <<fs, mResponseMap, responses, ui, mCards>>

\* ModelCard::operator== on the pair given
CompareCards ==
    /\ lastOp.op = "pair"
    /\ lastOp' = [lastOp EXCEPT !.op = "Compare",
                                !.equal = Equals(lastOp.card, lastOp.other)]
    /\ UNCHANGED <<fs, mResponseMap, responses, ui, mCards>>

\* DeepModelManager::GetRepoDir for both cards of the pair given
ResolveRepoDirs ==
    /\ lastOp.op = "pair"
    /\ lastOp' = [lastOp EXCEPT !.op = "GetRepoDir",
                                !.dirs = <<RepoDirOf(lastOp.card), RepoDirOf(lastOp.other)>>]
    /\ UNCHANGED <<fs, mResponseMap, responses, ui, mCards>>

ModelCardNext ==
    \/ SerializeCard
    \/ DeserializeDocument
    \/ CompareCards
    \/ ResolveRepoDirs

ModelCardSpec == ModelCardInit /\ [][ModelCardNext]_vars

\* ================================================== the registry on its own
\* ModelCardCollection under any sequence of Insert calls, with cards of every origin.
\* lastOp records the call made last, the registry before it, and all cards passed to
\* Insert so far; the manager's other variables keep their initial value.

RegistryOp(op, c, result, before, calls) ==
    [op |-> op, card |-> c, result |-> result, before |-> before, calls |-> calls,
     code |-> 0, body |-> [parses |-> FALSE, doc |-> NotAnObject, accepts |-> FALSE]]

RegistryInit ==
    /\ ManagerAtRest
    /\ lastOp = RegistryOp("Init", "none", "none", <<>>, <<>>)

\* a call of ModelCardCollection::Insert(card)
InsertCard(c) ==
    /\ Len(lastOp.calls) < MaxInserts
    /\ mCards' = Insert(mCards, c)
    /\ lastOp' = RegistryOp("Insert", c,
                            IF \E i \in 1..Len(mCards) : GetRepoID(mCards[i]) = GetRepoID(c)
                            THEN "present" ELSE "absent",
                            mCards, Append(lastOp.calls, c))
    /\ UNCHANGED <<fs, mResponseMap, responses, ui>>

\* the response bodies a metadata request of FetchCard can deliver: text that
\* parsers::ParseString rejects, or a document, which the schema accepts or not
FetchedBodies ==
    {[parses |-> FALSE, doc |-> NotAnObject, accepts |-> FALSE]}
    \cup {[parses |-> TRUE, doc |-> d, accepts |-> a] :
             d \in {Serialize(BaseCard),
                    Defective("effect_type" :> "missing"),
                    Defective("tags" :> "badelems"),
                    NotAnObject},
             a \in BOOLEAN}

\* DeepModelManager::NewCardFromHuggingFace: the ways it can end.  It returns true when
\* the body parses and Deserialize returns, false when either throws
\* InvalidModelCardDocument.
NewCardFromHuggingFace(body) ==
    IF ~body.parses THEN {"failure"}
    ELSE {IF r = "ok" THEN "success" ELSE IF r = "crash" THEN "crash" ELSE "failure" :
             r \in Deserialize(body.doc, body.accepts)}

\* the completion handler of FetchCard for the repo id of hub card c, followed by
\* onCardFetchedWrapper of FetchModelCards: a status other than 200 is logged and nothing
\* is called; else the card is built from the body and, when that succeeded, inserted
FetchCardCompleted(c) ==
    /\ Len(lastOp.calls) < MaxInserts
    /\ \E code \in HttpCodes, body \in FetchedBodies :
          IF code # 200
          THEN /\ mCards' = mCards
               /\ lastOp' = [RegistryOp("FetchCard", c, "not_called", mCards, lastOp.calls)
                             EXCEPT !.code = code, !.body = body]
          ELSE \E built \in NewCardFromHuggingFace(body) :
                  IF built = "success"
                  THEN /\ mCards' = Insert(mCards, c)
                       /\ lastOp' = [RegistryOp("FetchCard", c,
                                       IF \E i \in 1..Len(mCards) :
                                             GetRepoID(mCards[i]) = GetRepoID(c)
                                       THEN "present" ELSE "inserted",
                                       mCards, Append(lastOp.calls, c))
                                     EXCEPT !.code = code, !.body = body]
                  ELSE /\ mCards' = mCards
                       /\ lastOp' = [RegistryOp("FetchCard", c, built, mCards, lastOp.calls)
                                     EXCEPT !.code = code, !.body = body]
    /\ UNCHANGED <<fs, mResponseMap, responses, ui>>

\* ModelCardCollection::Filter that copies the cards the filter rejects
FilterNot(cards, filter) == SelectSeq(cards, LAMBDA c : c \notin filter)

\* ModelCardCollection::Filter: std::copy_if of the cards into a new collection; the
\* filter is given by the set of cards for which it returns true
Filter(cards, filter) == SelectSeq(cards, LAMBDA c : c \in filter)

\* DeepModelManager::GetCards(effect_type)
GetCards(cards, type) == Filter(cards, {c \in Cards : effect_type(c) = type})

\* a call of mCards.Filter(filter)
FilterCards(filter) ==
    /\ lastOp' = RegistryOp("Filter", "none", "none", mCards, lastOp.calls)
                 @@ [filter |-> filter, filtered |-> Filter(mCards, filter)]
    /\ UNCHANGED <<fs, mResponseMap, responses, ui, mCards>>

\* a call of DeepModelManager::GetCards(effect_type)
GetCardsOfType(type) ==
    /\ lastOp' = RegistryOp("GetCards", "none", type, mCards, lastOp.calls)
                 @@ [filter |-> {c \in Cards : effect_type(c) = type},
                     filtered |-> GetCards(mCards, type)]
    /\ UNCHANGED <<fs, mResponseMap, responses, ui, mCards>>

RegistryNext ==
    \/ \E c \in Cards : InsertCard(c)
    \/ \E filter \in SUBSET Cards : FilterCards(filter)
    \/ \E type \in EffectTypes : GetCardsOfType(type)
    \/ \E c \in HubCards : FetchCardCompleted(c)

RegistrySpec == RegistryInit /\ [][RegistryNext]_vars

\* ================================================== discovery of the cards
\* ModelManagerPanel::FetchCards on the UI thread and the completion handlers of the
\* requests it causes, which run on transport threads.  responses holds the requests
\* issued to the hub: the repository listing first, then one metadata request per
\* listed repo id.  ui.pc is "idle" before FetchCards, "local" between its two calls,
\* "done" after it and "crashed" when the process has died; ui.card is the card the
\* scan of the models directory has delivered with success from a metadata.json that
\* the schema accepts, "none" when there is none.

\* a request as issued: kind is "repos" or "card"; progress is the pair reported by
\* onProgress just before the request was issued; called counts the invocations of
\* onCardFetched for it, success is the flag of that invocation and valid tells
\* whether the schema accepts the document the card was built from
Request(kind, repo, progress) ==
    [kind |-> kind, repo |-> repo, progress |-> progress, state |-> "pending",
     called |-> 0, success |-> FALSE, valid |-> FALSE]

\* the hub card built for a listed repo id
CardOfRepo(repo) == CHOOSE c \in HubCards : GetRepoID(c) = repo

\* the local cards the scan finds: those whose directory holds model.pt and metadata.json
FoundBy(f) == {c \in Cards : is_local(c) /\ f[local_path(c)].model /\ f[local_path(c)].meta}

\* the bodies the listing request can deliver: text that does not parse, a document that
\* is not an array, or an array, whose elements are all strings or not
ListingBodies ==
    {[parses |-> FALSE, isArray |-> FALSE, strings |-> FALSE, ids |-> <<>>],
     [parses |-> TRUE, isArray |-> FALSE, strings |-> FALSE, ids |-> <<>>]}
    \cup {[parses |-> TRUE, isArray |-> TRUE, strings |-> TRUE, ids |-> ids] :
             ids \in {<<>>, <<"a/x">>, <<"a/x", "b/y">>, <<"b/y", "a/x">>}}
    \cup {[parses |-> TRUE, isArray |-> TRUE, strings |-> FALSE, ids |-> <<"a/x", Garbage>>]}

\* the completion handler of FetchRepos: what it passes to onReposFetched.  An element
\* that is not a string is read by GetString all the same: the read is undefined, the
\* process dies or a garbage string is taken as the repo id.
FetchRepos(code, body) ==
    IF ~(code = 200) THEN {[crash |-> FALSE, success |-> FALSE, ids |-> <<>>]}
    ELSE IF ~(body.parses /\ body.isArray)
    THEN {[crash |-> FALSE, success |-> FALSE, ids |-> <<>>]}
    ELSE IF body.strings
    THEN {[crash |-> FALSE, success |-> TRUE, ids |-> body.ids]}
    ELSE {[crash |-> TRUE, success |-> FALSE, ids |-> <<>>],
          [crash |-> FALSE, success |-> TRUE, ids |-> body.ids]}

\* DeepModelManager::NewCardFromLocal: the ways it can end, for the content of the
\* metadata.json that was found
NewCardFromLocal(body) ==
    IF ~body.parses THEN {"failure"}
    ELSE {IF r = "ok" THEN "success" ELSE IF r = "crash" THEN "crash" ELSE "failure" :
             r \in Deserialize(body.doc, body.accepts)}

DiscoveryInit ==
    /\ \E model \in BOOLEAN, meta \in BOOLEAN :
          /\ meta => model
          /\ fs = [d \in Dirs |-> IF d = ScannedDir
                                  THEN [model |-> model, meta |-> meta]
                                  ELSE [model |-> FALSE, meta |-> FALSE]]
    /\ mResponseMap = [r \in RepoIDs |-> 0]
    /\ responses = <<>>
    /\ ui = Idle
    /\ mCards = <<>>
    /\ lastOp = Op("Init", "none", 0, "none", 0, FALSE)

\* DeepModelManager::FetchModelCards as called by ModelManagerPanel::FetchCards:
\* FetchRepos issues the listing request
FetchModelCards ==
    /\ ui.pc = "idle"
    /\ responses' = <<Request("repos", "", <<0, 0>>)>>
    /\ ui' = [pc |-> "local", card |-> "none"]
    /\ lastOp' = Op("FetchModelCards", "none", 1, "issued", 0, FALSE)
    /\ UNCHANGED <<fs, mResponseMap, mCards>>

\* DeepModelManager::FetchLocalCards as called by ModelManagerPanel::FetchCards, with the
\* panel's callback: every directory holding both files gives a card, which is passed to
\* the callback and to nothing else
FetchLocalCards ==
    /\ ui.pc = "local"
    /\ IF FoundBy(fs) = {}
       THEN /\ ui' = [pc |-> "done", card |-> "none"]
            /\ lastOp' = Op("FetchLocalCards", "none", 0, "nothing_found", 0, FALSE)
       ELSE \E c \in FoundBy(fs), body \in FetchedBodies :
               \E built \in NewCardFromLocal(body) :
                  /\ ui' = [pc |-> IF built = "crash" THEN "crashed" ELSE "done",
                            card |-> IF built = "success" /\ body.accepts
                                     THEN c ELSE "none"]
                  /\ lastOp' = Op("FetchLocalCards", c, 0, built, 0, body)
    /\ UNCHANGED <<fs, mResponseMap, responses, mCards>>

\* the requests FetchCard issues for the listed ids, each after its onProgress report
CardRequests(ids) ==
    [i \in 1..Len(ids) |-> Request("card", ids[i], <<i, Len(ids)>>)]

\* the completion handler of FetchRepos followed by onRepoListFetched of FetchModelCards
ReposRequestFinished ==
    /\ ui.pc # "crashed"
    /\ Len(responses) >= 1
    /\ responses[1].state = "pending"
    /\ \E code \in HttpCodes, body \in ListingBodies :
          \E fetched \in FetchRepos(code, body) :
             /\ responses' = <<[responses[1] EXCEPT !.state = "finished"]>>
                             \o (IF fetched.success THEN CardRequests(fetched.ids) ELSE <<>>)
             /\ ui' = IF fetched.crash THEN [ui EXCEPT !.pc = "crashed"] ELSE ui
             /\ lastOp' = Op("FetchRepos", "none", 1,
                             IF fetched.crash THEN "crash"
                             ELSE IF ~(code = 200) THEN "rejected"
                             ELSE IF fetched.success THEN "success" ELSE "failure",
                             code, body)
    /\ UNCHANGED <<fs, mResponseMap, mCards>>

\* the completion handler of FetchCard for request i followed by onCardFetchedWrapper of
\* FetchModelCards.  A repo id read from a listing element that is no string names no
\* repository of the hub: its request is answered 404.
CardRequestFinished(i) ==
    /\ ui.pc # "crashed"
    /\ responses[i].kind = "card"
    /\ responses[i].state = "pending"
    /\ \E code \in HttpCodes, body \in FetchedBodies :
          /\ responses[i].repo = Garbage => code = 404
          /\ IF ~(code = 200)
             THEN /\ responses' = [responses EXCEPT ![i].state = "finished"]
                  /\ lastOp' = Op("FetchCard", "none", i, "not_called", code, body)
                  /\ UNCHANGED <<ui, mCards>>
             ELSE \E built \in NewCardFromHuggingFace(body) :
                     /\ lastOp' = Op("FetchCard", CardOfRepo(responses[i].repo), i,
                                     built, code, body)
                     /\ IF built = "crash"
                        THEN /\ ui' = [ui EXCEPT !.pc = "crashed"]
                             /\ UNCHANGED <<responses, mCards>>
                        ELSE /\ responses' = [responses EXCEPT
                                                ![i].state = "finished",
                                                ![i].called = @ + 1,
                                                ![i].success = (built = "success"),
                                                ![i].valid = (built = "success"
                                                              /\ body.accepts)]
                             /\ mCards' = IF built = "success"
                                          THEN Insert(mCards, CardOfRepo(responses[i].repo))
                                          ELSE mCards
                             /\ ui' = ui
    /\ UNCHANGED <<fs, mResponseMap>>

DiscoveryNext ==
    \/ FetchModelCards
    \/ FetchLocalCards
    \/ ReposRequestFinished
    \/ \E i \in 1..Len(responses) : CardRequestFinished(i)

DiscoverySpec == DiscoveryInit /\ [][DiscoveryNext]_vars

\* ================================================== the progress of discovery
\* onRepoListFetched of FetchModelCards statement by statement.  responses[1] is the
\* listing request and the card requests follow it in the order FetchCard issued them;
\* ui is the callback's position: the listing it was given (success, ids), the loop
\* index idx, and reports, the (current, total) pairs passed to onProgress so far.

ProgressAt(pc, success, ids, idx, reports) ==
    [pc |-> pc, card |-> "none", success |-> success, ids |-> ids, idx |-> idx,
     reports |-> reports]

ProgressInit ==
    /\ ManagerAtRest
    /\ lastOp = Op("Init", "none", 0, "none", 0, FALSE)

\* FetchModelCards: FetchRepos issues the listing request
ListingRequested ==
    /\ ui = Idle
    /\ responses = <<>>
    /\ responses' = <<Request("repos", "", <<0, 0>>)>>
    /\ ui' = ProgressAt("listing", FALSE, <<>>, 0, <<>>)
    /\ lastOp' = Op("FetchModelCards", "none", 1, "issued", 0, FALSE)
    /\ UNCHANGED <<fs, mResponseMap, mCards>>

\* the completion handler of FetchRepos calls onRepoListFetched(success, ids), which
\* enters its loop when success is true
RepoListFetched ==
    /\ ui.pc = "listing"
    /\ \E code \in HttpCodes, body \in ListingBodies :
          \E fetched \in FetchRepos(code, body) :
             /\ responses' = <<[responses[1] EXCEPT !.state = "finished"]>>
             /\ ui' = ProgressAt(IF fetched.crash THEN "crashed"
                                 ELSE IF fetched.success /\ 0 < Len(fetched.ids)
                                 THEN "report" ELSE "done",
                                 fetched.success, fetched.ids, 0, <<>>)
             /\ lastOp' = Op("FetchRepos", "none", 1,
                             IF fetched.crash THEN "crash"
                             ELSE IF fetched.success THEN "success" ELSE "failure",
                             code, body)
    /\ UNCHANGED <<fs, mResponseMap, mCards>>

\* the loop body, first statement: onProgress(idx+1, total)
ProgressReported ==
    /\ ui.pc = "report"
    /\ ui' = [ui EXCEPT !.pc = "fetch",
                        !.reports = Append(@, <<ui.idx + 1, Len(ui.ids)>>)]
    /\ lastOp' = Op("onProgress", "none", ui.idx + 1, "called", 0, FALSE)
    /\ UNCHANGED <<fs, mResponseMap, responses, mCards>>

\* the loop body, last statement: FetchCard(ids[idx], onCardFetchedWrapper), then idx++
\* and the loop test
CardRequested ==
    /\ ui.pc = "fetch"
    /\ responses' = Append(responses,
                           Request("card", ui.ids[ui.idx + 1], <<ui.idx + 1, Len(ui.ids)>>))
    /\ ui' = [ui EXCEPT !.pc = IF ui.idx + 1 < Len(ui.ids) THEN "report" ELSE "done",
                        !.idx = ui.idx + 1]
    /\ lastOp' = Op("FetchCard", "none", ui.idx + 1, "issued", 0, FALSE)
    /\ UNCHANGED <<fs, mResponseMap, mCards>>

ProgressNext ==
    \/ ListingRequested
    \/ RepoListFetched
    \/ ProgressReported
    \/ CardRequested
    \/ \E i \in 1..Len(responses) : CardRequestFinished(i)

ProgressSpec == ProgressInit /\ [][ProgressNext]_vars

\* ======================================================= the size of a model
\* DeepModelManager::FetchModelSize for the card of one panel.  ui.card is that card;
\* responses holds the HEAD requests issued for it; lastOp records the call or
\* completion handled last, the card's model_size before and after it, and how often
\* it invoked onModelSizeRetrieved; lastOp.calls counts the calls of FetchModelSize.

\* number of FetchModelSize calls made for the card
MaxSizeRequests == 2

\* the values of the x-linked-size header; "" stands for a response without the header
SizeHeaders == {"", "9", "9 bytes", "unknown", "3000000000"}

\* std::stoi(length, nullptr, 10): the leading digits as an int; std::invalid_argument
\* when there are none, std::out_of_range when the number does not fit an int
stoi(length) ==
    CASE length = "9"          -> [ok |-> TRUE, val |-> 9]
      [] length = "9 bytes"    -> [ok |-> TRUE, val |-> 9]
      [] length = "unknown"    -> [ok |-> FALSE, val |-> 0]
      [] length = "3000000000" -> [ok |-> FALSE, val |-> 0]

\* wxFile(...).Length() of a model.pt that exists
FileLength(f, dir) == IF f[dir].model THEN 5 ELSE 0

SizeOp(op, c, t, before, size, invoked, code, header, calls) ==
    [op |-> op, card |-> c, t |-> t, before |-> before, model_size |-> size,
     invoked |-> invoked, code |-> code, header |-> header, calls |-> calls]

SizeInit ==
    /\ \E installed \in BOOLEAN :
          fs = [d \in Dirs |-> IF d = ScannedDir THEN [model |-> TRUE, meta |-> TRUE]
                               ELSE IF d = GetRepoDir("hubAX")
                               THEN [model |-> installed, meta |-> installed]
                               ELSE [model |-> FALSE, meta |-> FALSE]]
    /\ mResponseMap = [r \in RepoIDs |-> 0]
    /\ responses = <<>>
    /\ \E c \in Cards : ui = [pc |-> "idle", card |-> c]
    /\ mCards = <<>>
    /\ \E size \in {0, 7} : lastOp = SizeOp("Init", "none", 0, size, size, 0, 0, "", 0)

\* the status test of the completion callback of FetchModelSize, passing every status
FetchModelSizeAcceptsAll(code) == TRUE

\* the status test of the completion callback of FetchModelSize
FetchModelSizeAccepts(code) == (code = 200) \/ (code = 302)

\* DeepModelManager::FetchModelSize(card, onModelSizeRetrieved) on the UI thread
FetchModelSize ==
    /\ ui.pc = "idle"
    /\ lastOp.calls < MaxSizeRequests
    /\ IF is_local(ui.card)
       THEN /\ lastOp' =
                  IF fs[GetRepoDir(ui.card)].model
                  THEN SizeOp("FetchModelSize", ui.card, 0, lastOp.model_size,
                              FileLength(fs, GetRepoDir(ui.card)), 1, 0, "",
                              lastOp.calls + 1)
                  ELSE SizeOp("FetchModelSize", ui.card, 0, lastOp.model_size,
                              lastOp.model_size, 0, 0, "", lastOp.calls + 1)
            /\ responses' = responses
       ELSE /\ responses' = Append(responses,
                               [state |-> "pending", called |-> 0, code |-> 0, header |-> ""])
            /\ lastOp' = SizeOp("FetchModelSize", ui.card, Len(responses) + 1,
                                lastOp.model_size, lastOp.model_size, 0, 0, "",
                                lastOp.calls + 1)
    /\ UNCHANGED <<fs, mResponseMap, ui, mCards>>

\* the request-finished callback of the HEAD request t, on a transport thread.  An
\* exception of std::stoi leaves the callback: the process ends.
SizeRequestFinished(t) ==
    /\ ui.pc # "crashed"
    /\ responses[t].state = "pending"
    /\ \E code \in HttpCodes, header \in SizeHeaders :
          IF ~FetchModelSizeAccepts(code) \/ header = ""
          THEN /\ responses' = [responses EXCEPT ![t] =
                                  [state |-> "finished", called |-> 0,
                                   code |-> code, header |-> header]]
               /\ lastOp' = SizeOp("SizeRequestFinished", ui.card, t, lastOp.model_size,
                                   lastOp.model_size, 0, code, header, lastOp.calls)
               /\ ui' = ui
          ELSE IF ~stoi(header).ok
          THEN /\ responses' = [responses EXCEPT ![t] =
                                  [state |-> "finished", called |-> 0,
                                   code |-> code, header |-> header]]
               /\ lastOp' = SizeOp("SizeRequestFinished", ui.card, t, lastOp.model_size,
                                   lastOp.model_size, 0, code, header, lastOp.calls)
               /\ ui' = [ui EXCEPT !.pc = "crashed"]
          ELSE /\ responses' = [responses EXCEPT ![t] =
                                  [state |-> "finished", called |-> 1,
                                   code |-> code, header |-> header]]
               /\ lastOp' = SizeOp("SizeRequestFinished", ui.card, t, lastOp.model_size,
                                   stoi(header).val, 1, code, header, lastOp.calls)
               /\ ui' = ui
    /\ UNCHANGED <<fs, mResponseMap, mCards>>

SizeNext ==
    \/ FetchModelSize
    \/ \E t \in 1..Len(responses) : SizeRequestFinished(t)

SizeSpec == SizeInit /\ [][SizeNext]_vars

\* ================================ accesses to the shared state of the manager
\* The accesses of the UI thread and of the transport threads to mResponseMap and to
\* mCards, each access taking time: a thread is at an access from the step that begins
\* it to the step that ends it.  responses holds one entry per transport activity: the
\* transfers issued by Install, whose callbacks run on a transport thread, and the
\* metadata requests of FetchCard, whose completion runs onCardFetchedWrapper.  The
\* files are left out, they decide no access.
\*   ui.pc:    "idle", "register" (Install writes mResponseMap[id]), "find"
\*             (CancelInstall reads the map in IsInstalling), "erase" (CancelInstall
\*             reads and erases the entry), "GetCards" (the registry is copied)
\*   at of a transfer: "running", "IsInstalling" (a callback reads the map), "erase"
\*             (the completion handler erases the entry), "finished"
\*   at of a request: "pending", "lock" (before std::lock_guard), "Insert" (holding
\*             mCardMutex and writing the registry), "finished"

\* number of metadata requests whose completions are followed
MaxFetches == 2

Activity(kind, c, at) == [kind |-> kind, card |-> c, at |-> at, event |-> "none"]

CountOf(kind) == Cardinality({t \in 1..Len(responses) : responses[t].kind = kind})

\* mCardMutex is held by the thread that is inside the guarded block
MutexHeld == \E t \in 1..Len(responses) : responses[t].at = "Insert"

AccessInit ==
    /\ ManagerAtRest
    /\ lastOp = Op("Init", "none", 0, "none", 0, FALSE)

\* Install(c) up to the return of DownloadModel: the transfer is running
AccessInstallIssues(c) ==
    /\ ui.pc = "idle"
    /\ CountOf("transfer") < MaxTransfers
    /\ responses' = Append(responses, Activity("transfer", c, "running"))
    /\ ui' = [pc |-> "register", card |-> c]
    /\ lastOp' = Op("Install", c, Len(responses) + 1, "issued", 0, FALSE)
    /\ UNCHANGED <<fs, mResponseMap, mCards>>

\* Install(c): mResponseMap[card->GetRepoID()] = response has been executed
AccessInstallRegistered ==
    /\ ui.pc = "register"
    /\ mResponseMap' = [mResponseMap EXCEPT ![GetRepoID(ui.card)] =
                           CHOOSE t \in 1..Len(responses) :
                              /\ responses[t].kind = "transfer"
                              /\ \A u \in (t + 1)..Len(responses) :
                                    responses[u].kind # "transfer"]
    /\ ui' = Idle
    /\ lastOp' = Op("Install", ui.card, 0, "registered", 0, FALSE)
    /\ UNCHANGED <<fs, responses, mCards>>

\* CancelInstall(c) enters IsInstalling(c)
AccessCancelBegins(c) ==
    /\ ui.pc = "idle"
    /\ ui' = [pc |-> "find", card |-> c]
    /\ lastOp' = Op("CancelInstall", c, 0, "find", 0, FALSE)
    /\ UNCHANGED <<fs, mResponseMap, responses, mCards>>

\* CancelInstall(c): IsInstalling(c) has returned
AccessCancelFound ==
    /\ ui.pc = "find"
    /\ ui' = IF IsInstalling(ui.card) THEN [ui EXCEPT !.pc = "erase"] ELSE Idle
    /\ lastOp' = Op("CancelInstall", ui.card, 0,
                    IF IsInstalling(ui.card) THEN "installing" ELSE "not_installing",
                    0, FALSE)
    /\ UNCHANGED <<fs, mResponseMap, responses, mCards>>

\* CancelInstall(c): the response has been aborted and the entry erased
AccessCancelErased ==
    /\ ui.pc = "erase"
    /\ mResponseMap' = [mResponseMap EXCEPT ![GetRepoID(ui.card)] = 0]
    /\ ui' = Idle
    /\ lastOp' = Op("CancelInstall", ui.card, 0, "erased", 0, FALSE)
    /\ UNCHANGED <<fs, responses, mCards>>

\* GetCards() or GetCards(effect_type) begins to copy the registry
AccessGetCardsBegins ==
    /\ ui.pc = "idle"
    /\ ui' = [pc |-> "GetCards", card |-> "none"]
    /\ lastOp' = Op("GetCards", "none", 0, "begun", 0, FALSE)
    /\ UNCHANGED <<fs, mResponseMap, responses, mCards>>

\* the copy of the registry is complete
AccessGetCardsEnds ==
    /\ ui.pc = "GetCards"
    /\ ui' = Idle
    /\ lastOp' = Op("GetCards", "none", 0, "copied", 0, FALSE)
    /\ UNCHANGED <<fs, mResponseMap, responses, mCards>>

\* FetchCard(repo id of c, onCardFetchedWrapper) issues the metadata request
AccessFetchIssued(c) ==
    /\ CountOf("fetch") < MaxFetches
    /\ responses' = Append(responses, Activity("fetch", c, "pending"))
    /\ lastOp' = Op("FetchCard", c, Len(responses) + 1, "issued", 0, FALSE)
    /\ UNCHANGED <<fs, mResponseMap, ui, mCards>>

\* a callback of transfer t (progressHandler, the data callback or installHandler)
\* enters IsInstalling(card)
AccessEventBegins(t, event) ==
    /\ responses[t].kind = "transfer"
    /\ responses[t].at = "running"
    /\ responses' = [responses EXCEPT ![t].at = "IsInstalling", ![t].event = event]
    /\ lastOp' = Op(event, responses[t].card, t, "find", 0, FALSE)
    /\ UNCHANGED <<fs, mResponseMap, ui, mCards>>

\* IsInstalling(card) has returned to the callback of transfer t: progressHandler and
\* the data callback touch the map no more; installHandler goes on to erase the entry
\* when the card is installing and returns when it is not
AccessEventFound(t) ==
    /\ responses[t].kind = "transfer"
    /\ responses[t].at = "IsInstalling"
    /\ responses' = [responses EXCEPT
                       ![t].at = IF responses[t].event # "completed" THEN "running"
                                 ELSE IF IsInstalling(responses[t].card) THEN "erase"
                                 ELSE "finished",
                       ![t].event = IF responses[t].event = "completed"
                                    THEN "completed" ELSE "none"]
    /\ lastOp' = Op(responses[t].event, responses[t].card, t,
                    IF IsInstalling(responses[t].card)
                    THEN "installing" ELSE "not_installing", 0, FALSE)
    /\ UNCHANGED <<fs, mResponseMap, ui, mCards>>

\* installHandler of transfer t: mResponseMap.erase(card->GetRepoID()) has been executed
AccessCompletionErased(t) ==
    /\ responses[t].kind = "transfer"
    /\ responses[t].at = "erase"
    /\ mResponseMap' = [mResponseMap EXCEPT ![GetRepoID(responses[t].card)] = 0]
    /\ responses' = [responses EXCEPT ![t].at = "finished"]
    /\ lastOp' = Op("completed", responses[t].card, t, "erased", 0, FALSE)
    /\ UNCHANGED <<fs, ui, mCards>>

\* the completion handler of FetchCard for request t calls onCardFetchedWrapper, which
\* comes to the guarded block when the card was built, and passes it by when not
AccessFetchCompleted(t) ==
    /\ responses[t].kind = "fetch"
    /\ responses[t].at = "pending"
    /\ \E success \in BOOLEAN :
          /\ responses' = [responses EXCEPT ![t].at = IF success THEN "lock" ELSE "finished"]
          /\ lastOp' = Op("FetchCard", responses[t].card, t,
                          IF success THEN "success" ELSE "failure", 0, FALSE)
    /\ UNCHANGED <<fs, mResponseMap, ui, mCards>>

\* std::lock_guard<std::mutex> guard(mCardMutex) in onCardFetchedWrapper
AccessMutexTaken(t) ==
    /\ responses[t].kind = "fetch"
    /\ responses[t].at = "lock"
    /\ ~MutexHeld
    /\ responses' = [responses EXCEPT ![t].at = "Insert"]
    /\ lastOp' = Op("FetchCard", responses[t].card, t, "locked", 0, FALSE)
    /\ UNCHANGED <<fs, mResponseMap, ui, mCards>>

\* mCards.Insert(card) has been executed and the guard released
AccessInserted(t) ==
    /\ responses[t].kind = "fetch"
    /\ responses[t].at = "Insert"
    /\ mCards' = Insert(mCards, responses[t].card)
    /\ responses' = [responses EXCEPT ![t].at = "finished"]
    /\ lastOp' = Op("FetchCard", responses[t].card, t, "inserted", 0, FALSE)
    /\ UNCHANGED <<fs, mResponseMap, ui>>

\* the accesses to mResponseMap
AccessNext ==
    \/ \E c \in HubCards : AccessInstallIssues(c)
    \/ AccessInstallRegistered
    \/ \E c \in HubCards : AccessCancelBegins(c)
    \/ AccessCancelFound
    \/ AccessCancelErased
    \/ \E t \in 1..Len(responses), event \in {"progress", "data", "completed"} :
          AccessEventBegins(t, event)
    \/ \E t \in 1..Len(responses) : AccessEventFound(t)
    \/ \E t \in 1..Len(responses) : AccessCompletionErased(t)

AccessSpec == AccessInit /\ [][AccessNext]_vars

\* the accesses to mCards
CardAccessNext ==
    \/ AccessGetCardsBegins
    \/ AccessGetCardsEnds
    \/ \E c \in HubCards : AccessFetchIssued(c)
    \/ \E t \in 1..Len(responses) : AccessFetchCompleted(t)
    \/ \E t \in 1..Len(responses) : AccessMutexTaken(t)
    \/ \E t \in 1..Len(responses) : AccessInserted(t)

CardAccessSpec == AccessInit /\ [][CardAccessNext]_vars

\* ========================================================= the forward pass
\* A tensor of shape (channels, samples) is the sequence of its channels, each the
\* sequence of its samples; samples are 0 or 1.

\* a default-constructed torch::Tensor
NoTensor == <<>>

TensorsOf(channels, samples) == [1..channels -> [1..samples -> {0, 1}]]

\* the tensors handed to the forward pass
ForwardInputs ==
    TensorsOf(1, 1) \cup TensorsOf(1, 2) \cup TensorsOf(2, 1) \cup TensorsOf(2, 2)

\* torch::zeros_like
zeros_like(t) == [c \in 1..Len(t) |-> [i \in 1..Len(t[1]) |-> 0]]

\* what the TorchScript module does with an input: it throws, or it returns the input,
\* the input with a silent second source, or a tensor of ones
EngineOutcomes(input) ==
    {[throws |-> TRUE, value |-> NoTensor]}
    \cup {[throws |-> FALSE, value |-> v] :
             v \in {input,
                    <<input[1], [i \in 1..Len(input[1]) |-> 0]>>,
                    [c \in 1..Len(input) |-> [i \in 1..Len(input[1]) |-> 1]]}}

\* DeepModel::Forward: ModelException when the model is not loaded or the module throws
Forward(mLoaded, engine) ==
    IF ~mLoaded THEN [thrown |-> "ModelException", value |-> NoTensor]
    ELSE IF engine.throws THEN [thrown |-> "ModelException", value |-> NoTensor]
    ELSE [thrown |-> "none", value |-> engine.value]

\* EffectDeepLearning::ForwardPass without its try block
ForwardPassUncaught(mLoaded, input, engine) ==
    [thrown |-> Forward(mLoaded, engine).thrown,
     value |-> Forward(mLoaded, engine).value,
     message |-> FALSE]

\* EffectDeepLearning::ForwardPass: a std::exception of Forward is logged and shown in a
\* message box, and zeros_like(input) is returned
ForwardPass(mLoaded, input, engine) ==
    IF Forward(mLoaded, engine).thrown # "none"
    THEN [thrown |-> "none", value |-> zeros_like(input), message |-> TRUE]
    ELSE [thrown |-> "none", value |-> Forward(mLoaded, engine).value, message |-> FALSE]

\* the model and the input are given; ForwardPass is applied once
ForwardInit ==
    /\ ManagerAtRest
    /\ \E input \in ForwardInputs, mLoaded \in BOOLEAN :
          \E engine \in EngineOutcomes(input) :
             lastOp = [op |-> "Given", input |-> input, mLoaded |-> mLoaded,
                       engine |-> engine, thrown |-> "none", returned |-> NoTensor,
                       message |-> FALSE]

ForwardPassRuns ==
    /\ lastOp.op = "Given"
    /\ lastOp' = [lastOp EXCEPT
                    !.op = "ForwardPass",
                    !.thrown = ForwardPass(lastOp.mLoaded, lastOp.input, lastOp.engine).thrown,
                    !.returned = ForwardPass(lastOp.mLoaded, lastOp.input, lastOp.engine).value,
                    !.message = ForwardPass(lastOp.mLoaded, lastOp.input, lastOp.engine).message]
    /\ UNCHANGED <<fs, mResponseMap, responses, ui, mCards>>

ForwardNext == ForwardPassRuns

ForwardSpec == ForwardInit /\ [][ForwardNext]_vars

\* ===================================================== loading a DeepModel
\* One DeepModel object.  ui is the object: mLoaded, mCard (the card its shared pointer
\* holds: "empty" is the card the constructor makes, "null" the reset pointer) and
\* mModel (the loaded module, "null" when there is none); ui.pc is "crashed" when the
\* process has died.  lastOp records the call made last, the object before it, what the
\* call threw and the tensor it returned.

\* the files Load can be given: whether resampler.pt loads, whether the model file
\* loads and as which module, and what its embedded metadata.json is like
ModelFiles ==
    [resampler : BOOLEAN, loadable : BOOLEAN, module : {"m1", "m2"},
     metadata : {"unparsable", "rejected", "ok"}]

\* the fields of a DeepModel a caller can observe
Observable(model) == [mLoaded |-> model.mLoaded, mCard |-> model.mCard, mModel |-> model.mModel]

\* DeepModel::DeepModel
Constructed == [pc |-> "idle", card |-> "none", mLoaded |-> FALSE, mCard |-> "empty",
                mModel |-> "null"]

\* DeepModel::Cleanup
Cleanup(model) == [model EXCEPT !.mCard = "null", !.mModel = "null", !.mLoaded = FALSE]

\* DeepModel::Load: the ways it can end, as [model, thrown].  Every exception of the try
\* block is a std::exception: Cleanup runs and ModelException is thrown.
\* mCard->InitFromJSONString through a reset pointer is undefined: the process dies, or
\* the call goes on with whatever it finds there.
Load(model, file) ==
    IF ~file.resampler \/ ~file.loadable
    THEN {[model |-> Cleanup(model), thrown |-> "ModelException"]}
    ELSE IF model.mCard = "null"
    THEN {[model |-> [model EXCEPT !.pc = "crashed", !.mModel = file.module],
           thrown |-> "none"],
          [model |-> [model EXCEPT !.mModel = file.module, !.mCard = Garbage,
                                   !.mLoaded = TRUE],
           thrown |-> "none"]}
    ELSE IF file.metadata # "ok"
    THEN {[model |-> Cleanup(model), thrown |-> "ModelException"]}
    ELSE {[model |-> [model EXCEPT !.mModel = file.module, !.mCard = file.module,
                                   !.mLoaded = TRUE],
           thrown |-> "none"]}

\* DeepModel::Resample: ModelException when the model is not loaded or the resampler
\* module throws
Resample(mLoaded, engine) ==
    IF ~mLoaded THEN [thrown |-> "ModelException", value |-> NoTensor]
    ELSE IF engine.throws THEN [thrown |-> "ModelException", value |-> NoTensor]
    ELSE [thrown |-> "none", value |-> engine.value]

LoadOp(op, before, thrown, returned) ==
    [op |-> op, before |-> before, thrown |-> thrown, returned |-> returned]

LoadInit ==
    /\ fs = [d \in Dirs |-> IF d = ScannedDir
                            THEN [model |-> TRUE, meta |-> TRUE]
                            ELSE [model |-> FALSE, meta |-> FALSE]]
    /\ mResponseMap = [r \in RepoIDs |-> 0]
    /\ responses = <<>>
    /\ mCards = <<>>
    /\ ui = Constructed
    /\ lastOp = LoadOp("Init", Observable(Constructed), "none", NoTensor)

LoadRuns(file) ==
    /\ ui.pc = "idle"
    /\ \E ended \in Load(ui, file) :
          /\ ui' = ended.model
          /\ lastOp' = LoadOp("Load", Observable(ui), ended.thrown, NoTensor)
    /\ UNCHANGED <<fs, mResponseMap, responses, mCards>>

ForwardRuns ==
    /\ ui.pc = "idle"
    /\ \E input \in ForwardInputs :
          \E engine \in EngineOutcomes(input) :
             lastOp' = LoadOp("Forward", Observable(ui), Forward(ui.mLoaded, engine).thrown,
                              Forward(ui.mLoaded, engine).value)
    /\ UNCHANGED <<fs, mResponseMap, responses, ui, mCards>>

ResampleRuns ==
    /\ ui.pc = "idle"
    /\ \E input \in ForwardInputs :
          \E engine \in EngineOutcomes(input) :
             lastOp' = LoadOp("Resample", Observable(ui), Resample(ui.mLoaded, engine).thrown,
                              Resample(ui.mLoaded, engine).value)
    /\ UNCHANGED <<fs, mResponseMap, responses, ui, mCards>>

LoadNext ==
    \/ \E file \in ModelFiles : LoadRuns(file)
    \/ ForwardRuns
    \/ ResampleRuns

LoadSpec == LoadInit /\ [][LoadNext]_vars

\* ============================================== labels from a model's output
\* EffectLabeler::TensorToLabelTrack for an output of n frames; frame i (counted from 0)
\* has the timestamps (i, i+1), tStart is 0 and tEnd is n.  lastOp holds the call's
\* input, the class index torch::argmax finds for each frame; ui is the second loop:
\* its index i, coalesceLabel, tStartCurrLabel and the indices at which predictedLabels
\* has been read; responses is the label track, the labels in the order AddLabel got
\* them.

\* number of frames of the model's output
MaxFrames == 4

\* mClasses: the label of each class index
mClasses == <<"speech", "music">>

\* the first loop: the label of every frame's most probable class
PredictedLabels(output) == [i \in 1..Len(output) |-> mClasses[output[i]]]

\* predictedLabels[i] for i counted from 0, as std::vector::operator[] reads it: the
\* element, or for an index past the end whatever is found there (a string equal to no
\* label, or by chance one of the labels) or the death of the process
ReadAt(predictedLabels, i) ==
    IF i < Len(predictedLabels) THEN {predictedLabels[i + 1]}
    ELSE {"crash", Garbage} \cup {mClasses[k] : k \in DOMAIN mClasses}

LabelLoopAt(pc, i, coalesceLabel, tStartCurrLabel, reads) ==
    [pc |-> pc, card |-> "none", i |-> i, coalesceLabel |-> coalesceLabel,
     tStartCurrLabel |-> tStartCurrLabel, reads |-> reads]

LabelInit ==
    /\ fs = [d \in Dirs |-> IF d = ScannedDir
                            THEN [model |-> TRUE, meta |-> TRUE]
                            ELSE [model |-> FALSE, meta |-> FALSE]]
    /\ mResponseMap = [r \in RepoIDs |-> 0]
    /\ mCards = <<>>
    /\ responses = <<>>
    /\ ui = LabelLoopAt("loop", 0, "", 0, {})
    /\ \E n \in 1..MaxFrames :
          \E output \in [1..n -> DOMAIN mClasses] :
             lastOp = [op |-> "Given", output |-> output]

\* one iteration of the second loop, for i < output.size(0)
FrameHandled ==
    LET predictedLabels == PredictedLabels(lastOp.output)
        i == ui.i
        tTempStart == i
        tEndCurrLabel == i + 1
        next == IF i + 1 < Len(predictedLabels) THEN "loop" ELSE "done"
    IN
    /\ ui.pc = "loop"
    /\ i < Len(predictedLabels)
    /\ \E ahead \in ReadAt(predictedLabels, i + 1) :
          IF ahead = "crash"
          THEN /\ ui' = [ui EXCEPT !.pc = "crashed", !.reads = @ \cup {i, i + 1}]
               /\ UNCHANGED responses
          ELSE IF predictedLabels[i + 1] = ahead
          THEN /\ ui' = IF ui.coalesceLabel # predictedLabels[i + 1]
                        THEN LabelLoopAt(next, i + 1, predictedLabels[i + 1], tTempStart,
                                         ui.reads \cup {i, i + 1})
                        ELSE LabelLoopAt(next, i + 1, ui.coalesceLabel, ui.tStartCurrLabel,
                                         ui.reads \cup {i, i + 1})
               /\ UNCHANGED responses
          ELSE /\ responses' = Append(responses,
                                      [t0 |-> ui.tStartCurrLabel, t1 |-> tEndCurrLabel,
                                       title |-> predictedLabels[i + 1]])
               /\ ui' = LabelLoopAt(next, i + 1, predictedLabels[i + 1], tEndCurrLabel,
                                    ui.reads \cup {i, i + 1})
    /\ UNCHANGED <<fs, mResponseMap, mCards, lastOp>>

LabelNext == FrameHandled

LabelSpec == LabelInit /\ [][LabelNext]_vars

\* ============================================ the forward pass in a thread
\* RunForwardPass (ForwardPassInThread in the callers): the calling thread spawns one
\* worker that runs the engine's forward pass and writes the output, the success flag
\* and the done flag of the call through references to the caller's local variables;
\* the caller loops: it tests done, calls progressPoll and sleeps.
\*   ui.pc:     "idle" (the pipeline is outside the call), "loop" (before the test of
\*              done), "poll" (done was seen false, before progressPoll), "join"
\*              (done was seen true, in thread.join), "returned" (the call has
\*              returned, the pipeline holds its value), "crashed"
\*   responses: the workers spawned, in order; the worker of call k is responses[k]
\*   lastOp:    the variables of the call made last (input, output, done, success), how
\*              it ended (exit), the value it returned, and what the pipeline wrote to
\*              the track last

\* number of RunForwardPass calls made
MaxCalls == 2

RunInputs == TensorsOf(1, 1)

Worker(input) ==
    [state |-> "running", detached |-> FALSE, joined |-> FALSE,
     input |-> input, result |-> NoTensor]

InferenceInit ==
    /\ ManagerAtRest
    /\ lastOp = [op |-> "Init", call |-> 0, input |-> NoTensor, output |-> NoTensor,
                 done |-> FALSE, success |-> TRUE, exit |-> "none",
                 returned |-> NoTensor, track |-> NoTensor]

\* the call begins: its variables are initialised and the worker is spawned
RunForwardPassBegins(input) ==
    /\ ui.pc = "idle"
    /\ Len(responses) < MaxCalls
    /\ responses' = Append(responses, Worker(input))
    /\ lastOp' = [op |-> "RunForwardPass", call |-> Len(responses) + 1, input |-> input,
                  output |-> NoTensor, done |-> FALSE, success |-> TRUE, exit |-> "none",
                  returned |-> NoTensor, track |-> lastOp.track]
    /\ ui' = [pc |-> "loop", card |-> "none"]
    /\ UNCHANGED <<fs, mResponseMap, mCards>>

\* the variables of the call in progress after a worker has written its result to them:
\* the output, success = false when the engine threw, done
WrittenBy(engine, result) ==
    [lastOp EXCEPT !.op = "worker",
                   !.output = result,
                   !.success = IF engine.throws THEN FALSE ELSE @,
                   !.done = TRUE]

\* the engine's forward pass of worker w ends and the worker writes its result.  The
\* worker of the call in progress writes to the variables of that call.  A detached
\* worker writes through references to variables of a call that has returned: the
\* write is lost, or the process dies, or it lands in the variables of the call that
\* is in progress at that moment and occupies the same storage.
WorkerEnds(w) ==
    /\ ui.pc # "crashed"
    /\ responses[w].state = "running"
    /\ \E engine \in EngineOutcomes(responses[w].input) :
          LET result == IF engine.throws THEN zeros_like(responses[w].input)
                        ELSE engine.value
          IN /\ responses' = [responses EXCEPT ![w].state = "finished",
                                               ![w].result = result]
             /\ IF ~responses[w].detached
                THEN /\ lastOp' = WrittenBy(engine, result)
                     /\ ui' = ui
                ELSE \/ /\ lastOp' = lastOp
                        /\ ui' = ui
                     \/ /\ lastOp' = lastOp
                        /\ ui' = [ui EXCEPT !.pc = "crashed"]
                     \/ /\ ui.pc \in {"loop", "poll", "join"}
                        /\ lastOp' = WrittenBy(engine, result)
                        /\ ui' = ui
    /\ UNCHANGED <<fs, mResponseMap, mCards>>

\* the caller tests the done flag
CallerTestsDone ==
    /\ ui.pc = "loop"
    /\ ui' = [ui EXCEPT !.pc = IF lastOp.done THEN "join" ELSE "poll"]
    /\ lastOp' = [lastOp EXCEPT !.op = "test"]
    /\ UNCHANGED <<fs, mResponseMap, responses, mCards>>

\* the caller calls progressPoll: on abort it sets success to false, detaches the
\* worker and returns a zero tensor shaped like the input; else it sleeps
CallerPolls ==
    /\ ui.pc = "poll"
    /\ \E abort \in BOOLEAN :
          IF abort
          THEN /\ lastOp' = [lastOp EXCEPT !.op = "poll", !.success = FALSE,
                                           !.exit = "cancelled",
                                           !.returned = zeros_like(lastOp.input)]
               /\ responses' = [responses EXCEPT ![lastOp.call].detached = TRUE]
               /\ ui' = [ui EXCEPT !.pc = "returned"]
          ELSE /\ lastOp' = [lastOp EXCEPT !.op = "poll"]
               /\ responses' = responses
               /\ ui' = [ui EXCEPT !.pc = "loop"]
    /\ UNCHANGED <<fs, mResponseMap, mCards>>

\* thread.join() returns when the worker of the call has ended; the call returns the
\* output
CallerJoins ==
    /\ ui.pc = "join"
    /\ responses[lastOp.call].state = "finished"
    /\ responses' = [responses EXCEPT ![lastOp.call].joined = TRUE]
    /\ lastOp' = [lastOp EXCEPT !.op = "join", !.exit = "completed",
                                !.returned = lastOp.output]
    /\ ui' = [ui EXCEPT !.pc = "returned"]
    /\ UNCHANGED <<fs, mResponseMap, mCards>>

\* ProcessOne writes the value the call returned to the track
PipelineWrites ==
    /\ ui.pc = "returned"
    /\ lastOp' = [lastOp EXCEPT !.op = "written", !.track = lastOp.returned]
    /\ ui' = Idle
    /\ UNCHANGED <<fs, mResponseMap, responses, mCards>>

InferenceNext ==
    \/ \E input \in RunInputs : RunForwardPassBegins(input)
    \/ \E w \in 1..Len(responses) : WorkerEnds(w)
    \/ CallerTestsDone
    \/ CallerPolls
    \/ CallerJoins
    \/ PipelineWrites

InferenceSpec == InferenceInit /\ [][InferenceNext]_vars

\* ===================================================== the manager panel
\* ModelManagerPanel of one effect.  The callback it hands to the manager posts every
\* card-fetched event to the UI thread with CallAfter; responses is the queue of the
\* posted events.  ui.effect is mEffect->GetDeepEffectID(), ui.mPanels the cards that
\* have a panel and ui.card the card selected with SetModel.  lastOp records the event
\* or call handled last, the number of events delivered (calls) and the cards that
\* were delivered with success (fetched).

\* number of card-fetched events delivered to the panel
MaxEvents == 3

PanelOp(op, c, result, calls, fetched) ==
    [op |-> op, card |-> c, result |-> result, calls |-> calls, fetched |-> fetched]

\* mPanels.find(card->GetRepoID()) != mPanels.end()
Found(panels, card) == \E q \in panels : GetRepoID(q) = GetRepoID(card)

\* the test of the panel's callback without the comparison of the effect type
ShouldAddAnyType(panels, effect, success, card) ==
    success /\ ~Found(panels, card)

\* the test of the panel's callback: success, no panel for the repo id yet, and the
\* card's effect type is the effect's id
ShouldAdd(panels, effect, success, card) ==
    success /\ ~Found(panels, card) /\ effect_type(card) = effect

\* ModelManagerPanel::AddCard: mPanels[repoId] = a new panel for the card
AddCard(panels, card) ==
    {q \in panels : GetRepoID(q) # GetRepoID(card)} \cup {card}

PanelInit ==
    /\ fs = [d \in Dirs |-> IF d = ScannedDir
                            THEN [model |-> TRUE, meta |-> TRUE]
                            ELSE [model |-> FALSE, meta |-> FALSE]]
    /\ mResponseMap = [r \in RepoIDs |-> 0]
    /\ responses = <<>>
    /\ \E effect \in EffectTypes :
          ui = [pc |-> "idle", card |-> "none", effect |-> effect, mPanels |-> {}]
    /\ mCards = <<>>
    /\ lastOp = PanelOp("Init", "none", "none", 0, {})

\* the callback of GetCardFetchedCallback is invoked: CallAfter posts the event
OnCardFetched(success, card) ==
    /\ lastOp.calls < MaxEvents
    /\ responses' = Append(responses, [success |-> success, card |-> card])
    /\ lastOp' = PanelOp("onCardFetched", card, IF success THEN "success" ELSE "failure",
                         lastOp.calls + 1,
                         IF success THEN lastOp.fetched \cup {card} ELSE lastOp.fetched)
    /\ UNCHANGED <<fs, mResponseMap, ui, mCards>>

\* the UI thread runs the posted event: AddCard when the test passes, and SetModel when
\* the panel added is the only one
PanelHandlesEvent ==
    /\ responses # <<>>
    /\ responses' = Tail(responses)
    /\ LET event == Head(responses)
           add == ShouldAdd(ui.mPanels, ui.effect, event.success, event.card)
       IN /\ ui' = IF add
                   THEN [ui EXCEPT !.mPanels = AddCard(ui.mPanels, event.card),
                                   !.card = IF Cardinality(AddCard(ui.mPanels, event.card)) = 1
                                            THEN event.card ELSE @]
                   ELSE ui
          /\ lastOp' = PanelOp("CallAfter", event.card, IF add THEN "added" ELSE "dropped",
                               lastOp.calls, lastOp.fetched)
    /\ UNCHANGED <<fs, mResponseMap, mCards>>

\* ModelManagerPanel::Clear: no card of a panel is installing here; the panels are dropped
PanelClear ==
    /\ ui.mPanels # {}
    /\ ui' = [ui EXCEPT !.mPanels = {}]
    /\ lastOp' = PanelOp("Clear", "none", "cleared", lastOp.calls, lastOp.fetched)
    /\ UNCHANGED <<fs, mResponseMap, responses, mCards>>

PanelNext ==
    \/ \E success \in BOOLEAN, card \in Cards : OnCardFetched(success, card)
    \/ PanelHandlesEvent
    \/ PanelClear

PanelSpec == PanelInit /\ [][PanelNext]_vars

\* ============================================= the repo id of a fetched card
\* NewCardFromHuggingFace for one repo id and one body.  The repo id is given as the
\* sequence of its characters, so that it can be split as wxStringTokenizer splits it.

\* length of the repo id strings
MaxRepoIdLen == 4

RepoIdStrings == UNION {[1..n -> {"a", "/"}] : n \in 0..MaxRepoIdLen}

\* the std::string of a sequence of characters
RECURSIVE ToStdString(_)
ToStdString(chars) ==
    IF chars = <<>> THEN "" ELSE Head(chars) \o ToStdString(Tail(chars))

\* the position of the first '/' of chars, Len(chars) + 1 when there is none
DelimiterIn(chars) ==
    IF \E i \in 1..Len(chars) : chars[i] = "/"
    THEN CHOOSE i \in 1..Len(chars) :
            chars[i] = "/" /\ \A j \in 1..(i - 1) : chars[j] # "/"
    ELSE Len(chars) + 1

\* wxStringTokenizer::GetNextToken with the delimiter '/': the characters before the
\* first delimiter; the empty string when nothing is left
GetNextToken(chars) == SubSeq(chars, 1, DelimiterIn(chars) - 1)

\* what the tokenizer has left after GetNextToken
AfterToken(chars) == SubSeq(chars, DelimiterIn(chars) + 1, Len(chars))

\* the bodies: valid documents whose author and name keys vary
RepoBodies ==
    {Serialize([BaseCard EXCEPT !.author = a, !.name = n]) :
        a \in {"", "z"}, n \in {"", "w"}}

\* the card NewCardFromHuggingFace builds from a body that deserializes: author and
\* name are the first and the second token of repoID
CardFromHuggingFace(doc, repoID) ==
    [Deserialized(doc) EXCEPT
        !.author = ToStdString(GetNextToken(repoID)),
        !.name = ToStdString(GetNextToken(AfterToken(repoID)))]

RepoIdInit ==
    /\ ManagerAtRest
    /\ \E repoID \in RepoIdStrings, doc \in RepoBodies :
          lastOp = [op |-> "Given", repoID |-> repoID, doc |-> doc, card |-> NoCard]

\* FetchCard(repoID, ...) has received the body with status 200
CardBuiltFromHuggingFace ==
    /\ lastOp.op = "Given"
    /\ lastOp' = [lastOp EXCEPT !.op = "NewCardFromHuggingFace",
                                !.card = CardFromHuggingFace(lastOp.doc, lastOp.repoID)]
    /\ UNCHANGED <<fs, mResponseMap, responses, ui, mCards>>

RepoIdNext == CardBuiltFromHuggingFace

RepoIdSpec == RepoIdInit /\ [][RepoIdNext]_vars

\* ================================================================= claims

\* the files of a card at its cache path, the directory GetRepoDir computes
FilesAtCachePath(c) == fs[GetRepoDir(c)].model /\ fs[GetRepoDir(c)].meta

\* the last step was a transport callback that invoked the handler the caller passed to
\* Install (onProgress from progressHandler, onCompleted from installHandler)
CallerHandlerInvoked ==
    /\ lastOp.op \in {"Progress", "Finished"}
    /\ lastOp.result = "called"

\* C1: after CancelInstall(c) has returned, neither onProgress nor onCompleted of the
\* cancelled Install is invoked again, whatever the aborted transfer still delivers and
\* whatever is done with c afterwards.
C1_NoCallbackAfterCancel ==
    CallerHandlerInvoked => ~responses[lastOp.t].abortRequested

\* C2: when the transfer of an Install that was never cancelled completes with status
\* 200 or 302 and a non-empty body, the card is installed and no longer installing.
C2_InstalledAfterSuccessfulTransfer ==
    ( /\ lastOp.op = "Finished"
      /\ lastOp.result = "called"
      /\ ~responses[lastOp.t].abortRequested
      /\ lastOp.code \in {200, 302}
      /\ lastOp.body )
    => (IsInstalled(lastOp.card) /\ ~IsInstalling(lastOp.card))

\* a download that is in progress: issued, not finished, not cancelled
InProgress(t) == Running(t) /\ ~responses[t].abortRequested

\* C3: the manager never has two downloads for the same repo id in progress at once,
\* and an Install that starts while one is in progress observes IsInstalling.
C3_NoConcurrentDownloadsOfARepo ==
    /\ \A t1, t2 \in 1..Len(responses) :
          ( /\ t1 # t2
            /\ GetRepoID(responses[t1].card) = GetRepoID(responses[t2].card) )
          => ~(InProgress(t1) /\ InProgress(t2))
    /\ \A t \in 1..Len(responses) :
          ( /\ InProgress(t)
            /\ ui.pc = "download"
            /\ GetRepoID(ui.card) = GetRepoID(responses[t].card) )
          => IsInstalling(ui.card)

\* C4: the entry an Install stores in the in-flight map is removed once its transfer
\* has completed or was cancelled: the map never holds a response that has finished or
\* was aborted, so no card stays marked as installing forever.
C4_NoStaleInFlightEntry ==
    \A r \in RepoIDs :
        mResponseMap[r] # 0 =>
            /\ ~responses[mResponseMap[r]].finished
            /\ ~responses[mResponseMap[r]].abortRequested

\* C5: a card whose weights are only partially downloaded is not reported as installed:
\* not while its install is in flight, and not after it was cancelled before the
\* transfer completed.
C5_PartialDownloadNotInstalled ==
    \A t \in 1..Len(responses) :
        ( /\ Running(t)
          /\ \/ mResponseMap[GetRepoID(responses[t].card)] = t
             \/ responses[t].abortRequested )
        => ~IsInstalled(responses[t].card)

\* C6: IsInstalled(c) is true if and only if both model.pt and metadata.json exist at
\* c's cache path.
C6_InstalledIffBothFilesAtCachePath ==
    \A c \in Cards : IsInstalled(c) <=> FilesAtCachePath(c)

\* C7: Install on a card that is already installed issues no request, invokes no
\* callback, and leaves the in-flight map and the files unchanged.
C7_InstallOnInstalledIsNoOp ==
    [][ ( /\ lastOp'.op = "Install"
          /\ ui = Idle
          /\ IsInstalled(lastOp'.card) )
        => UNCHANGED <<fs, mResponseMap, responses, ui, mCards>> ]_vars

C7_Witness ==
    /\ lastOp.op = "Install"
    /\ lastOp.result = "noop"
    /\ ~is_local(lastOp.card)

\* C8: Install on an uninstalled card has written the metadata file when the download
\* is issued and when the card is registered, and from the metadata write until the
\* download completes IsInstalled is false.
C8_MetadataFirstAndNotInstalledUntilDone ==
    /\ (lastOp.op = "Install" /\ lastOp.result \in {"download_issued", "registered"})
          => fs[GetRepoDir(lastOp.card)].meta
    /\ ui.pc \in {"download", "register"} => ~IsInstalled(ui.card)
    /\ \A t \in 1..Len(responses) : InProgress(t) => ~IsInstalled(responses[t].card)

\* C9: CancelInstall on a card that is not installing hits the assertion and changes
\* nothing: not the in-flight map, not a transfer, not the files.
C9_CancelWhenNotInstallingChangesNothing ==
    [][ (lastOp'.op = "CancelInstall" /\ ~IsInstalling(lastOp'.card))
        => /\ lastOp'.result = "assert"
           /\ UNCHANGED <<fs, mResponseMap, responses, ui, mCards>> ]_vars

C9_Witness ==
    /\ lastOp.op = "CancelInstall"
    /\ lastOp.result = "assert"
    /\ FilesAtCachePath(lastOp.card)

\* C10: CancelInstall on an installing card aborts that card's transfer and removes
\* that card's entry from the in-flight map; the entries of other repo ids, the other
\* transfers, the registry and the files are unchanged.
C10_CancelRemovesOnlyItsEntry ==
    [][ (lastOp'.op = "CancelInstall" /\ IsInstalling(lastOp'.card))
        => LET r == GetRepoID(lastOp'.card)
               t == mResponseMap[r]
           IN /\ lastOp'.result = "aborted"
              /\ mResponseMap' = [mResponseMap EXCEPT ![r] = 0]
              /\ responses' = [responses EXCEPT ![t].abortRequested = TRUE]
              /\ UNCHANGED <<fs, ui, mCards>> ]_vars

C10_Witness ==
    /\ lastOp.op = "CancelInstall"
    /\ lastOp.result = "aborted"
    /\ responses[lastOp.t].abortRequested
    /\ ~IsInstalling(lastOp.card)
    /\ \E r \in RepoIDs : mResponseMap[r] # 0
    /\ FilesAtCachePath(lastOp.card)
    /\ mCards # <<>>

\* C11: after Uninstall(c) has returned IsInstalled(c) is false, for a card fetched from
\* the hub and for a card found by the local scan alike.
C11_NotInstalledAfterUninstall ==
    lastOp.op = "Uninstall" => ~IsInstalled(lastOp.card)

\* C12: Uninstall changes files only: the registry, the in-flight map and the transfers
\* are the same after it as before.
C12_UninstallChangesOnlyFiles ==
    [][ lastOp'.op = "Uninstall"
        => UNCHANGED <<mResponseMap, responses, ui, mCards>> ]_vars

C12_Witness ==
    /\ lastOp.op = "Uninstall"
    /\ IsInstalling(lastOp.card)
    /\ InProgress(mResponseMap[GetRepoID(lastOp.card)])
    /\ \E i \in 1..Len(mCards) : mCards[i] = lastOp.card
    /\ ~FilesAtCachePath(lastOp.card)

\* C13: GetModel on a card that is not installed throws the manager's exception and
\* loads nothing; a model is loaded and returned only for a card that is installed.
C13_GetModelRequiresInstalled ==
    [][ lastOp'.op = "GetModel"
        => /\ ~IsInstalled(lastOp'.card) => lastOp'.result = "ModelManagerException"
           /\ lastOp'.result = "loaded" => IsInstalled(lastOp'.card)
           /\ UNCHANGED <<fs, mResponseMap, responses, ui, mCards>> ]_vars

C13_Witness ==
    /\ lastOp.op = "GetModel"
    /\ lastOp.result = "ModelManagerException"
    /\ ~IsInstalled(lastOp.card)
    /\ \E t \in 1..Len(responses) : responses[t].card = lastOp.card /\ responses[t].finished

\* the position in calls of the first card with the repo id of c
FirstCall(calls, c) ==
    CHOOSE k \in 1..Len(calls) :
        /\ GetRepoID(calls[k]) = GetRepoID(c)
        /\ \A j \in 1..(k - 1) : GetRepoID(calls[j]) # GetRepoID(c)

OptionalKeys == {"author", "name", "model_size", "long_description", "short_description"}

RequiredKeys == Keys \ OptionalKeys

\* member k of the document is present and has the type the card's field is written with
\* (an array of strings, for the tag and label arrays)
WellTyped(k, doc) ==
    /\ k \in DOMAIN doc.members
    /\ doc.members[k].type = Serialize(BaseCard).members[k].type
    /\ k = "model_size" => doc.members[k].val >= 0
    /\ k \in ArrayKeys =>
          \A i \in 1..Len(doc.members[k].val) : doc.members[k].val[i].type = "string"

\* C15: a card is inserted into the manager's registry only when its document parsed,
\* passed schema validation and was deserialized; a card for which one of these failed
\* is skipped.
C15_OnlyValidCardsInserted ==
    (lastOp.op = "FetchCard" /\ lastOp.result = "inserted")
    => /\ lastOp.body.parses
       /\ lastOp.body.accepts
       /\ \A k \in RequiredKeys : WellTyped(k, lastOp.body.doc)

\* C16: Deserialize of a document the schema does not accept fails with
\* InvalidModelCardDocument, also when every required member is present and well typed.
C16_SchemaViolationFailsDeserialize ==
    (lastOp.op = "Deserialize" /\ ~lastOp.accepts)
    => lastOp.result = "InvalidModelCardDocument"

\* C17: deserializing what Serialize wrote for a card succeeds and gives a card that is
\* equal to it by repo id and has the same value in every serialized field, the arrays
\* in the same order.
C17_RoundTrip ==
    (lastOp.op = "Deserialize" /\ lastOp.from = "Serialize")
    => /\ lastOp.result = "ok"
       /\ Equals(lastOp.back, lastOp.card)
       /\ RepoIDOf(lastOp.back) = RepoIDOf(lastOp.card)
       /\ lastOp.back.name = lastOp.card.name
       /\ lastOp.back.author = lastOp.card.author
       /\ lastOp.back.long_description = lastOp.card.long_description
       /\ lastOp.back.short_description = lastOp.card.short_description
       /\ lastOp.back.sample_rate = lastOp.card.sample_rate
       /\ lastOp.back.multichannel = lastOp.card.multichannel
       /\ lastOp.back.effect_type = lastOp.card.effect_type
       /\ lastOp.back.domain_tags = lastOp.card.domain_tags
       /\ lastOp.back.tags = lastOp.card.tags
       /\ lastOp.back.labels = lastOp.card.labels
       /\ lastOp.back.model_size = lastOp.card.model_size

C17_Witness ==
    /\ lastOp.op = "Deserialize"
    /\ lastOp.from = "Serialize"
    /\ lastOp.result = "ok"
    /\ lastOp.card.name = "x"
    /\ lastOp.card.long_description = ""
    /\ lastOp.card.sample_rate = -1
    /\ lastOp.card.tags = <<"t2", "t1">>
    /\ lastOp.card.labels = <<"l1", "l2">>
    /\ lastOp.card.model_size = 7
    /\ lastOp.back.tags = <<"t2", "t1">>

\* C18: in a document whose root is an object, a missing author, name, model_size or
\* description never makes Deserialize fail and yields the default, while a required
\* member that is missing or of the wrong type always makes it fail with
\* InvalidModelCardDocument.
C18_OptionalDefaultRequiredThrows ==
    (lastOp.op = "Deserialize" /\ lastOp.from = "document" /\ lastOp.doc.isObject)
    => /\ (\E k \in RequiredKeys : ~WellTyped(k, lastOp.doc))
             => lastOp.result = "InvalidModelCardDocument"
       /\ (\A k \in RequiredKeys : WellTyped(k, lastOp.doc))
             => /\ lastOp.result = "ok"
                /\ "author" \notin DOMAIN lastOp.doc.members => lastOp.back.author = ""
                /\ "name" \notin DOMAIN lastOp.doc.members => lastOp.back.name = ""
                /\ "model_size" \notin DOMAIN lastOp.doc.members
                      => lastOp.back.model_size = 0
                /\ "long_description" \notin DOMAIN lastOp.doc.members
                      => lastOp.back.long_description = "no long description available"
                /\ "short_description" \notin DOMAIN lastOp.doc.members
                      => lastOp.back.short_description = "no short description available"

\* C19: two cards are equal exactly when their repo ids are, and their repo ids are equal
\* exactly when both their authors and their names are.
C19_EqualIffSameAuthorAndName ==
    lastOp.op = "Compare"
    => /\ lastOp.equal <=> RepoIDOf(lastOp.card) = RepoIDOf(lastOp.other)
       /\ RepoIDOf(lastOp.card) = RepoIDOf(lastOp.other)
             <=> ( /\ lastOp.card.author = lastOp.other.author
                   /\ lastOp.card.name = lastOp.other.name )

\* C20: two cards with different repo ids resolve to different cache directories.
C20_DistinctRepoIDsDistinctDirs ==
    (lastOp.op = "GetRepoDir" /\ RepoIDOf(lastOp.card) # RepoIDOf(lastOp.other))
    => lastOp.dirs[1] # lastOp.dirs[2]

\* the position of card c in the sequence cards
PositionIn(cards, c) == CHOOSE i \in 1..Len(cards) : cards[i] = c

\* C21: Filter returns a new registry with exactly the cards of the source for which the
\* filter holds, in the order they have in the source, and leaves the source as it was;
\* GetCards(effect_type) returns what Filter returns for the cards of that effect type.
C21_FilterKeepsMatchingCardsInOrder ==
    lastOp.op \in {"Filter", "GetCards"}
    => /\ mCards = lastOp.before
       /\ {lastOp.filtered[i] : i \in 1..Len(lastOp.filtered)}
             = {mCards[i] : i \in 1..Len(mCards)} \cap lastOp.filter
       /\ \A i, j \in 1..Len(lastOp.filtered) :
             i < j => PositionIn(mCards, lastOp.filtered[i])
                         < PositionIn(mCards, lastOp.filtered[j])
       /\ lastOp.op = "GetCards"
             => \A c \in Cards : c \in lastOp.filter <=> effect_type(c) = lastOp.result

C21_Witness ==
    /\ lastOp.op = "GetCards"
    /\ Len(mCards) = 2
    /\ Len(lastOp.filtered) = 1
    /\ lastOp.filtered[1] = mCards[2]

\* discovery has finished: FetchCards has returned and every request has completed
DiscoveryFinished ==
    /\ ui.pc = "done"
    /\ \A i \in 1..Len(responses) : responses[i].state = "finished"

\* C22: once the metadata request of a listed repo id has completed, with success or
\* with failure, onCardFetched has been invoked exactly once for it.
C22_CardFetchedOncePerResult ==
    \A i \in 1..Len(responses) :
       (responses[i].kind = "card" /\ responses[i].state = "finished")
       => responses[i].called = 1

\* C23: once discovery has finished, the registry holds a card for every valid local
\* card the scan found and for every valid hub card that was fetched.
C23_RegistryMergesLocalAndHub ==
    DiscoveryFinished
    => /\ ui.card # "none"
          => \E k \in 1..Len(mCards) : GetRepoID(mCards[k]) = GetRepoID(ui.card)
       /\ \A i \in 1..Len(responses) :
             (responses[i].kind = "card" /\ responses[i].valid)
             => \E k \in 1..Len(mCards) : GetRepoID(mCards[k]) = responses[i].repo

\* C24: a request to the hub is treated as failed by its status exactly when the status
\* is neither 200 nor 302 (here: the listing and the metadata requests).
C24_Status200Or302IsSuccess ==
    lastOp.op \in {"FetchRepos", "FetchCard"}
    => (lastOp.result \in {"rejected", "not_called"} <=> lastOp.code \notin {200, 302})

\* C25: FetchModelSize invokes its callback at most once per call, for a local card only
\* when the model.pt it measures exists, for a hub card only when the size request ended
\* with status 200 or 302 and carried the size header; a call or completion that does
\* not invoke the callback leaves the card's model_size as it was.
C25_SizeCallbackOnlyOnSuccess ==
    /\ \A t \in 1..Len(responses) :
          /\ responses[t].called <= 1
          /\ responses[t].called = 1
                => /\ responses[t].state = "finished"
                   /\ responses[t].code \in {200, 302}
                   /\ responses[t].header # ""
    /\ lastOp.invoked <= 1
    /\ (lastOp.op = "FetchModelSize" /\ lastOp.invoked = 1)
          => is_local(lastOp.card) /\ fs[GetRepoDir(lastOp.card)].model
    /\ lastOp.invoked = 0 => lastOp.model_size = lastOp.before

C25_Witness ==
    /\ lastOp.op = "SizeRequestFinished"
    /\ lastOp.code = 302
    /\ lastOp.invoked = 1
    /\ lastOp.model_size # lastOp.before
    /\ \E t \in 1..Len(responses) :
          responses[t].state = "finished" /\ responses[t].called = 0

\* the UI thread is reading or writing mResponseMap
UIAtMap == ui.pc \in {"register", "find", "erase"}

\* the transport thread of transfer t is reading or writing mResponseMap
TransportAtMap(t) ==
    /\ responses[t].kind = "transfer"
    /\ responses[t].at \in {"IsInstalling", "erase"}

\* C26: no read or write of mResponseMap on a transport thread (IsInstalling in a
\* callback, the erase of the completion handler) overlaps a read or write of the map
\* by Install or CancelInstall on the UI thread.
C26_MapAccessExclusive ==
    ~(UIAtMap /\ \E t \in 1..Len(responses) : TransportAtMap(t))

\* insertions into the registry never overlap each other
InsertionsExclusive ==
    \A t, u \in 1..Len(responses) :
       (responses[t].at = "Insert" /\ responses[u].at = "Insert") => t = u

\* C27: insertions into the registry by concurrent fetch completions never overlap each
\* other, no copy of the registry (GetCards) overlaps an insertion, and the registry
\* holds no two cards of one repo id.
C27_RegistryAccessExclusive ==
    /\ InsertionsExclusive
    /\ ~(ui.pc = "GetCards" /\ MutexHeld)
    /\ \A i, j \in 1..Len(mCards) :
          GetRepoID(mCards[i]) = GetRepoID(mCards[j]) => i = j

\* every sample of every channel of t is zero
AllZero(t) == \A c \in 1..Len(t) : \A i \in 1..Len(t[c]) : t[c][i] = 0

\* t and u have the same number of channels and of samples
SameShape(t, u) ==
    /\ Len(t) = Len(u)
    /\ \A c \in 1..Len(t) : Len(t[c]) = Len(u[c])

LateResults ==
    {responses[w].result : w \in {v \in 1..Len(responses) :
                                     /\ v # lastOp.call
                                     /\ responses[v].detached
                                     /\ responses[v].state = "finished"}}

\* what the call made last may hand to the pipeline: zeros shaped like its input, or
\* the result of its own worker
OwnResults ==
    {zeros_like(lastOp.input)}
    \cup (IF responses[lastOp.call].state = "finished"
          THEN {responses[lastOp.call].result} ELSE {})

\* C29: a call that was cancelled before its worker signalled done has returned a zero
\* tensor shaped like the input, and the result of a detached worker is never the value
\* a call returns nor the value written to the track (unless it is also the call's own
\* result or the zero tensor).
C29_CancelledResultDiscarded ==
    /\ lastOp.exit = "cancelled"
          => /\ SameShape(lastOp.returned, lastOp.input)
             /\ AllZero(lastOp.returned)
    /\ (lastOp.exit # "none" /\ lastOp.returned \in LateResults)
          => lastOp.returned \in OwnResults
    /\ (lastOp.op = "written" /\ lastOp.track \in LateResults)
          => lastOp.track \in OwnResults

\* C30: every call has spawned exactly one worker, and a call that completed normally
\* returned after its worker had set done and had been joined, with the worker's output.
C30_ReturnsJoinedWorkersOutput ==
    /\ lastOp.call = Len(responses)
    /\ lastOp.exit = "completed"
          => /\ responses[lastOp.call].state = "finished"
             /\ responses[lastOp.call].joined
             /\ lastOp.done
             /\ lastOp.returned = responses[lastOp.call].result

\* C31: the manager panel holds at most one card panel per repo id, and every card
\* panel belongs to a card that was delivered with success and whose effect type is the
\* effect's id.
C31_PanelsOnlyCompatibleCards ==
    /\ \A p, q \in ui.mPanels : GetRepoID(p) = GetRepoID(q) => p = q
    /\ \A p \in ui.mPanels : p \in lastOp.fetched /\ effect_type(p) = ui.effect

C31_Witness ==
    /\ Cardinality(ui.mPanels) = 1
    /\ lastOp.op = "CallAfter"
    /\ lastOp.result = "dropped"
    /\ lastOp.card \in lastOp.fetched
    /\ effect_type(lastOp.card) # ui.effect

\* C32: the card built from a hub response for repo id r has GetRepoID() = r, whatever
\* author and name the body holds, for every string r passed to FetchCard.
C32_RepoIDFromRequest ==
    lastOp.op = "NewCardFromHuggingFace"
    => RepoIDOf(lastOp.card) = ToStdString(lastOp.repoID)

\* the last step was a progress, data-received or request-finished event of a transfer
\* that was not cancelled
EventOfUncancelledTransfer ==
    /\ lastOp.op \in {"Progress", "Data", "Finished"}
    /\ ~responses[lastOp.t].abortRequested

\* C33: every progress, data-received and completion event of a transfer that was not
\* cancelled finds IsInstalling(c) true, and no event of a transfer is handled while
\* Install has not yet registered it in the in-flight map.
C33_InFlightEntryCoversTransfer ==
    /\ EventOfUncancelledTransfer => lastOp.result \notin {"suppressed", "uninstalled"}
    /\ ~( /\ ui.pc = "register"
          /\ lastOp.op \in {"Progress", "Data", "Finished"}
          /\ lastOp.t = Len(responses) )

\* C34: when the transfer of an install that was never cancelled completes, the
\* caller's onCompleted is invoked (the completion event comes once), and when the status
\* is a failure the card is afterwards neither installed nor installing.
C34_CompletionReportedOnce ==
    (lastOp.op = "Finished" /\ ~responses[lastOp.t].abortRequested)
    => /\ lastOp.result = "called"
       /\ lastOp.code \notin {200, 302}
             => ~IsInstalled(lastOp.card) /\ ~IsInstalling(lastOp.card)

\* the last step was an event of a transfer whose abort had been requested
LateEvent ==
    /\ lastOp.op \in {"Progress", "Data", "Finished"}
    /\ responses[lastOp.t].abortRequested

\* C35: when the panel's cancel action on an installing card ends (CancelInstall, then
\* Uninstall), the card is neither installing nor installed; and an event of an aborted
\* transfer never makes its card installing or installed again, nor recreates a file
\* of the card or its in-flight entry.
C35_CancelledStaysUninstalled ==
    [][ \A c \in Cards :
        lastOp'.card = c =>
        /\ (lastOp'.op = "OnCancelInstall" /\ lastOp'.result = "uninstalled")
           => (~IsInstalling(c) /\ ~IsInstalled(c))'
        /\ LateEvent'
           => /\ (~IsInstalling(c) /\ ~IsInstalled(c))
                 => (~IsInstalling(c) /\ ~IsInstalled(c))'
              /\ fs'[GetRepoDir(c)].meta => fs[GetRepoDir(c)].meta
              /\ fs'[GetRepoDir(c)].model => fs[GetRepoDir(c)].model
              /\ mResponseMap'[GetRepoID(c)] # 0 => mResponseMap[GetRepoID(c)] # 0 ]_vars

\* a late data event of the cancelled transfer is handled after the panel's cancel
\* action ended, and the card is still neither installing nor installed
C35_Witness ==
    /\ lastOp.op = "Data"
    /\ responses[lastOp.t].abortRequested
    /\ lastOp.result = "uninstalled"
    /\ ~IsInstalling(lastOp.card)
    /\ ~IsInstalled(lastOp.card)
    /\ \A t \in 1..Len(responses) : responses[t].abortRequested

\* C36: when the metadata write of Install fails, the exception does not leave Install,
\* no download is issued and the in-flight map is left as it was.
C36_MetadataFailureContained ==
    [][ (lastOp'.op = "Install" /\ lastOp'.result \in {"logged", "InvalidModelCardDocument"})
        => /\ lastOp'.result = "logged"
           /\ responses' = responses
           /\ mResponseMap' = mResponseMap
           /\ ui' = Idle ]_vars

\* the loop of onRepoListFetched is at work or has ended
ListingHandled == ui.pc \in {"report", "fetch", "done", "crashed"} /\ "reports" \in DOMAIN ui

\* C37: onProgress is invoked only after a successful listing, once per listed repo with
\* current = 1, 2, ..., total in this order and total the number of listed repos; when
\* (k, total) has been reported the request for the k-th repo has been issued; after a
\* failed or empty listing neither onProgress nor onCardFetched is invoked.
C37_ProgressFollowsRequests ==
    ListingHandled =>
       /\ Len(ui.reports) <= Len(ui.ids)
       /\ \A k \in 1..Len(ui.reports) : ui.reports[k] = <<k, Len(ui.ids)>>
       /\ (ui.pc = "done" /\ ui.success) => Len(ui.reports) = Len(ui.ids)
       /\ \A k \in 1..Len(ui.reports) :
             /\ Len(responses) >= k + 1
             /\ responses[k + 1].repo = ui.ids[k]
       /\ (~ui.success \/ ui.ids = <<>>)
             => /\ ui.reports = <<>>
                /\ \A i \in 1..Len(responses) : responses[i].called = 0

\* C38: a Load that throws leaves the loaded flag, the card and the module of the model
\* as they were before the call; Forward and Resample on a model that is not loaded
\* throw ModelException and do not run the module.
C38_LoadIsStronglyExceptionSafe ==
    /\ (lastOp.op = "Load" /\ lastOp.thrown # "none") => Observable(ui) = lastOp.before
    /\ (lastOp.op \in {"Forward", "Resample"} /\ ~lastOp.before.mLoaded)
          => lastOp.thrown = "ModelException" /\ lastOp.returned = NoTensor

\* the labels of the maximal runs of frames with one predicted class
RunsOf(predictedLabels) ==
    LET n == Len(predictedLabels)
        EndsRun(k) == k = n \/ predictedLabels[k] # predictedLabels[k + 1]
        StartOf(k) == CHOOSE j \in 1..k :
                         /\ \A m \in j..k : predictedLabels[m] = predictedLabels[k]
                         /\ j = 1 \/ predictedLabels[j - 1] # predictedLabels[k]
    IN {[t0 |-> StartOf(k) - 1, t1 |-> k, title |-> predictedLabels[k]] :
           k \in {k \in 1..n : EndsRun(k)}}

\* C39: every index at which TensorToLabelTrack reads predictedLabels lies in 0..n-1,
\* and when it returns the label track holds one label for each maximal run of frames
\* with the same predicted class, spanning the run.
C39_LabelReadsInBounds ==
    /\ ui.reads \subseteq 0..(Len(lastOp.output) - 1)
    /\ ui.pc = "done"
          => /\ {responses[k] : k \in 1..Len(responses)}
                   = RunsOf(PredictedLabels(lastOp.output))
             /\ Len(responses) = Cardinality(RunsOf(PredictedLabels(lastOp.output)))

====


